---- MODULE Spec2Model ----
(***************************************************************************)
(* Insurance-enrollment portal (src/app.py): the InsuranceApplication      *)
(* lifecycle, the handlers that mutate applications, and the admin gate.   *)
(*                                                                         *)
(* Time is counted in hours of the single civil zone (KST); a date is a    *)
(* day number and midnight of day d is hour 24*d.  None (-1) stands for    *)
(* Python's None / SQL NULL.                                               *)
(***************************************************************************)
EXTENDS Integers, FiniteSets, Sequences, TLC

VARIABLES
    apps,       \* insurance_application table: id -> row (committed state)
    nextId,     \* next primary key of insurance_application
    now,        \* wall clock, datetime.now(KST), in hours
    ticks,      \* number of clock advances taken so far
    flash,      \* category of the last response: what the handler reported
    members,    \* member table: id -> row (committed state)
    groups,     \* partner_group table: id -> row (committed state)
    session,    \* browser -> its Flask session (with the Flask-Login user id)
    served,     \* id of the user the last request ran an admin view for, or None
    inflight    \* the member request that has loaded and checked its row, not yet written

vars == <<apps, nextId, now, ticks, flash, members, groups, session, served, inflight>>

----------------------------------------------------------------------------
(* Bounds of the model *)

MaxApps == 1
MaxTicks == 3

(* Program constants *)

ActivationHours == 2
CoverageDays == 30

None == 0 - 1

\* InsuranceApplication.status: '신청', '조합승인', '가입', '종료'
ST_APPLIED == "applied"
ST_UNION == "union_approved"
ST_ACTIVE == "active"
ST_EXPIRED == "expired"
Statuses == {ST_APPLIED, ST_UNION, ST_ACTIVE, ST_EXPIRED}

\* position of a status in the lifecycle order
Rank(s) == CASE s = ST_APPLIED -> 0
             [] s = ST_UNION   -> 1
             [] s = ST_ACTIVE  -> 2
             [] s = ST_EXPIRED -> 3

\* partner groups, and the dates and datetimes the forms can carry
Groups == {1, 2}
Days == {0, 1}
\* form fields: a date string is a valid day, '' (None) or unparsable text (Garbled);
\* a datetime string is a valid hour or '' (None)
Garbled == 0 - 2
FormDates == Days \cup {None, Garbled}
FormTimes == {1440, None}
Plates == {"", "12A3456"}
ClockSteps == {1, 24 * CoverageDays}

\* the Member rows of the lifecycle specification: member 1 of group 1, member 2 of
\* group 2 and the global admin
MemberIds == {1, 2}
\* the browsers whose sessions the authentication specification follows
Browsers == {1, 2}
Roles == {"member", "admin"}
\* Member.approval_status: '신청', '승인'
ApprovalStatuses == {"applied", "approved"}
AdminId == Cardinality(MemberIds) + 1

\* datetime.combine(date, datetime.min.time(), tzinfo=KST)
Midnight(d) == 24 * d

\* timedelta(days=30)
CoverageHours == 24 * CoverageDays

\* _ensure_aware: None for a falsy value, otherwise the same instant read in KST
ensure_aware(dt) == IF dt = None THEN None ELSE dt

----------------------------------------------------------------------------
(* Faulty variants of recompute_status, each one slip away from the code; the   *)
(* lifecycle properties below tell the code from them.                         *)

\* activates only strictly later than two hours after the approval
recompute_status_late(a, t) ==
    LET end_at_local == ensure_aware(a.end_at)
        activate == /\ a.status \in {ST_APPLIED, ST_UNION}
                    /\ a.approved_at # None
                    /\ t > a.approved_at + ActivationHours
        start_date == Midnight(a.desired_start_date)
        a1 == IF activate
              THEN IF a.start_at = None
                   THEN [a EXCEPT !.status = ST_ACTIVE, !.start_at = start_date,
                                  !.end_at = start_date + CoverageHours]
                   ELSE [a EXCEPT !.status = ST_ACTIVE]
              ELSE a
    IN  IF end_at_local # None /\ t >= end_at_local
        THEN [a1 EXCEPT !.status = ST_EXPIRED] ELSE a1

\* rewrites the coverage window on every activation, start_at set or not
recompute_status_rewindow(a, t) ==
    LET end_at_local == ensure_aware(a.end_at)
        activate == /\ a.status \in {ST_APPLIED, ST_UNION}
                    /\ a.approved_at # None
                    /\ t >= a.approved_at + ActivationHours
        start_date == Midnight(a.desired_start_date)
        a1 == IF activate
              THEN [a EXCEPT !.status = ST_ACTIVE, !.start_at = start_date,
                             !.end_at = start_date + CoverageHours]
              ELSE a
    IN  IF end_at_local # None /\ t >= end_at_local
        THEN [a1 EXCEPT !.status = ST_EXPIRED] ELSE a1

\* expires only an application that is active
recompute_status_active_only(a, t) ==
    LET end_at_local == ensure_aware(a.end_at)
        activate == /\ a.status \in {ST_APPLIED, ST_UNION}
                    /\ a.approved_at # None
                    /\ t >= a.approved_at + ActivationHours
        start_date == Midnight(a.desired_start_date)
        a1 == IF activate
              THEN IF a.start_at = None
                   THEN [a EXCEPT !.status = ST_ACTIVE, !.start_at = start_date,
                                  !.end_at = start_date + CoverageHours]
                   ELSE [a EXCEPT !.status = ST_ACTIVE]
              ELSE a
    IN  IF a1.status = ST_ACTIVE /\ end_at_local # None /\ t >= end_at_local
        THEN [a1 EXCEPT !.status = ST_EXPIRED] ELSE a1

(* InsuranceApplication.recompute_status, evaluated at time t *)

recompute_status(a, t) ==
    LET approved_at_local == ensure_aware(a.approved_at)
        end_at_local == ensure_aware(a.end_at)
        activate == /\ a.status \in {ST_APPLIED, ST_UNION}
                    /\ approved_at_local # None
                    /\ t >= approved_at_local + ActivationHours
        start_date == Midnight(a.desired_start_date)
        a1 == IF activate
              THEN IF a.start_at = None
                   THEN [a EXCEPT !.status = ST_ACTIVE,
                                  !.start_at = start_date,
                                  !.end_at = start_date + CoverageHours]
                   ELSE [a EXCEPT !.status = ST_ACTIVE]
              ELSE a
    IN  IF end_at_local # None /\ t >= end_at_local
        THEN [a1 EXCEPT !.status = ST_EXPIRED]
        ELSE a1

\* the "for r in rows: r.recompute_status()" loop of a list view, over the rows in ids
RecomputeRows(tbl, ids, t) ==
    [i \in DOMAIN tbl |-> IF i \in ids THEN recompute_status(tbl[i], t) ELSE tbl[i]]

----------------------------------------------------------------------------
(* Sessions and gates *)

\* parse_date / parse_datetime: the parsed value, or None when empty or unparsable
parse_date(v) == IF v >= 0 THEN v ELSE None
parse_datetime(v) == IF v >= 0 THEN ensure_aware(v) ELSE None

\* a Flask session: the Flask-Login user id and the keys the login code writes
Session(uid, role, utype, pg, sel) ==
    [user_id |-> uid, user_role |-> role, user_type |-> utype,
     partner_group_id |-> pg, admin_selected |-> sel]

Anonymous == Session(None, "none", "none", None, None)

\* load_user / current_user: the Member row of the session's user id, if it exists
is_authenticated(s, mem) == s.user_id # None /\ s.user_id \in DOMAIN mem

\* admin_required: the role comes from the session unless the session has none or
\* says 'member' (then from the Member row); approval_status always from the row
AdminRole(s, mem) ==
    IF s.user_role \in {"none", "member"} THEN mem[s.user_id].role ELSE s.user_role

\* faulty variant of admin_required: the role alone opens the admin screens
admin_required_role_only(s, mem) ==
    /\ is_authenticated(s, mem)
    /\ AdminRole(s, mem) = "admin"

admin_required(s, mem) ==
    /\ is_authenticated(s, mem)
    /\ AdminRole(s, mem) = "admin"
    /\ mem[s.user_id].approval_status = "approved"

\* what admin_required tells a caller it turns away: login_required sends an
\* anonymous caller to the login page, lines 1228-1231 refuse a role other than
\* admin, lines 1236-1239 an admin whose approval_status is not '승인'
admin_required_flash(s, mem) ==
    IF ~is_authenticated(s, mem) THEN "denied"
    ELSE IF AdminRole(s, mem) # "admin" THEN "not_admin"
    ELSE "not_approved"

\* partner_insurance, lines 4176-4204: who the caller is and for which group
is_partner_admin(s) == s.user_type = "partner_admin"

PartnerGroupOf(s, mem) ==
    IF is_partner_admin(s) THEN s.partner_group_id
    ELSE IF /\ is_authenticated(s, mem)
            /\ mem[s.user_id].role = "member"
            /\ mem[s.user_id].partner_group_id # None
         THEN mem[s.user_id].partner_group_id
         ELSE None

\* partner_admin_insurance_approval, lines 5258-5266
PartnerAdminGate(s) == is_partner_admin(s) /\ s.partner_group_id # None

\* the sessions the login code establishes from a clean browser, used as the
\* callers of the lifecycle specification
MemberSession(m) == Session(m, "member", "none", None, None)
PartnerAdminSession(g) == Session(None, "partner_admin", "partner_admin", g, None)
GlobalAdminSession == Session(AdminId, "admin", "none", None, None)
BootstrapGroupSession(g) == Session(AdminId, "admin", "partner_admin", g, g)

Callers ==
    {MemberSession(m) : m \in MemberIds}
        \cup {PartnerAdminSession(1), GlobalAdminSession, Anonymous}

----------------------------------------------------------------------------
(* The insurance_application table *)

Ids == DOMAIN apps

\* no member request is between its check and its write
NoPending == [op |-> "none", user_id |-> None, row |-> None,
              desired_start_date |-> None, car_plate |-> ""]

NewApplication(pg, creator, d, plate) ==
    [partner_group_id |-> pg, created_by_member_id |-> creator,
     desired_start_date |-> d, car_plate |-> plate,
     approved_at |-> None, start_at |-> None, end_at |-> None,
     status |-> ST_APPLIED]

\* NOT NULL columns of insurance_application: a commit that would store such a row fails
RowValid(a) == a.desired_start_date # None /\ a.partner_group_id # None

Insert(a) == [i \in Ids \cup {nextId} |-> IF i = nextId THEN a ELSE apps[i]]
Delete(i) == [j \in Ids \ {i} |-> apps[j]]

\* what a request leaves behind: the committed table and the message it flashed
Out(tbl, msg) == [apps |-> tbl, flash |-> msg]

\* safe_commit of a request that changed row i to a: stored when the row is valid,
\* rolled back (the table is left as it was) and reported otherwise
CommitRow(i, a) ==
    IF RowValid(a) THEN Out([apps EXCEPT ![i] = a], "success") ELSE Out(apps, "danger")

\* safe_commit of a request that adds row a
CommitInsert(a) ==
    IF RowValid(a) THEN Out(Insert(a), "success") ELSE Out(apps, "danger")

\* a request whose outcome is out; it touches neither the clock nor the other tables
Request(out) ==
    /\ apps' = out.apps
    /\ flash' = out.flash
    /\ nextId' = IF DOMAIN out.apps \subseteq Ids THEN nextId ELSE nextId + 1
    /\ UNCHANGED <<now, ticks, members, groups, session, served, inflight>>

----------------------------------------------------------------------------
(* /partner/insurance: partner_insurance (member or partner-group admin) *)

\* action == 'apply', lines 4209-4299
partner_insurance_apply(c, d, plate) ==
    LET pg == PartnerGroupOf(c, members)
        desired == parse_date(d)
        creator == IF is_partner_admin(c) THEN None ELSE c.user_id
    IN  IF pg = None THEN Out(apps, "denied")
        ELSE IF desired = None \/ plate = "" THEN Out(apps, "invalid")
        ELSE CommitInsert(NewApplication(pg, creator, desired, plate))

\* action in ['save', 'delete'], lines 4402-4509: the row must belong to the caller's
\* group and, for a member, to the member; it is locked once approved_at is set
partner_insurance_save(c, i, d, plate) ==
    LET pg == PartnerGroupOf(c, members)
    IN  IF pg = None THEN Out(apps, "denied")
        ELSE IF i \notin Ids \/ apps[i].partner_group_id # pg THEN Out(apps, "none")
        ELSE IF ~is_partner_admin(c) /\ apps[i].created_by_member_id # c.user_id
             THEN Out(apps, "denied")
        ELSE IF apps[i].approved_at # None THEN Out(apps, "locked")
        ELSE CommitRow(i, [apps[i] EXCEPT !.desired_start_date = parse_date(d),
                                          !.car_plate = plate])

\* faulty variant of partner_insurance_delete: it does not look at approved_at
partner_insurance_delete_unlocked(c, i) ==
    LET pg == PartnerGroupOf(c, members)
    IN  IF pg = None THEN Out(apps, "denied")
        ELSE IF i \notin Ids \/ apps[i].partner_group_id # pg THEN Out(apps, "none")
        ELSE IF ~is_partner_admin(c) /\ apps[i].created_by_member_id # c.user_id
             THEN Out(apps, "denied")
        ELSE Out(Delete(i), "success")

partner_insurance_delete(c, i) ==
    LET pg == PartnerGroupOf(c, members)
    IN  IF pg = None THEN Out(apps, "denied")
        ELSE IF i \notin Ids \/ apps[i].partner_group_id # pg THEN Out(apps, "none")
        ELSE IF ~is_partner_admin(c) /\ apps[i].created_by_member_id # c.user_id
             THEN Out(apps, "denied")
        ELSE IF apps[i].approved_at # None THEN Out(apps, "locked")
        ELSE Out(Delete(i), "success")

\* GET, lines 4513-4563: the rows of the group (a member: the member's own rows) that
\* pass the date filter are recomputed and committed
PartnerInsuranceRows(c) ==
    {i \in Ids : /\ apps[i].partner_group_id = PartnerGroupOf(c, members)
                 /\ is_partner_admin(c) \/ apps[i].created_by_member_id = c.user_id}

partner_insurance_list(c, rows) ==
    IF PartnerGroupOf(c, members) = None THEN Out(apps, "denied")
    ELSE Out(RecomputeRows(apps, rows \cap PartnerInsuranceRows(c), now), "none")

----------------------------------------------------------------------------
(* /insurance: insurance (login_required; the member's own rows) *)

\* action == 'save', lines 2850-2855 and 2901-2957: the fields are written only when
\* the form carries a desired_start_date
insurance_save(c, i, d, plate) ==
    IF ~is_authenticated(c, members) THEN Out(apps, "denied")
    ELSE IF i \notin Ids \/ apps[i].created_by_member_id # c.user_id THEN Out(apps, "none")
    ELSE IF apps[i].approved_at # None THEN Out(apps, "locked")
    ELSE IF d = None THEN Out(apps, "success")
    ELSE CommitRow(i, [apps[i] EXCEPT !.desired_start_date = parse_date(d),
                                      !.car_plate = plate])

\* action == 'delete', lines 2850-2900
insurance_delete(c, i) ==
    IF ~is_authenticated(c, members) THEN Out(apps, "denied")
    ELSE IF i \notin Ids \/ apps[i].created_by_member_id # c.user_id THEN Out(apps, "none")
    ELSE IF apps[i].approved_at # None THEN Out(apps, "locked")
    ELSE Out(Delete(i), "success")

\* new application, lines 2960-3029: the row carries no partner_group_id, so the
\* commit fails on the NOT NULL column and nothing is stored
insurance_new(c, d, plate) ==
    IF ~is_authenticated(c, members) THEN Out(apps, "denied")
    ELSE CommitInsert(NewApplication(None, c.user_id, parse_date(d), plate))

\* GET, lines 3031-3082
insurance_list(c, rows) ==
    IF ~is_authenticated(c, members) THEN Out(apps, "denied")
    ELSE Out(RecomputeRows(apps, {i \in rows \cap Ids : apps[i].created_by_member_id = c.user_id},
                           now), "none")

----------------------------------------------------------------------------
(* /partner/admin/insurance-approval: partner_admin_insurance_approval *)

\* the assignments of approve and bulk_approve, lines 5328-5335 and 5286-5293
Approved(a, t) ==
    LET s1 == IF a.desired_start_date # None /\ a.start_at = None
              THEN Midnight(a.desired_start_date) ELSE a.start_at
        e1 == IF s1 # None /\ a.end_at = None
              THEN s1 + CoverageHours ELSE a.end_at
    IN  [a EXCEPT !.approved_at = t, !.status = ST_UNION, !.start_at = s1, !.end_at = e1]

\* action == 'bulk_approve', lines 5277-5318: every row of the group with no approved_at
bulk_approve(c) ==
    IF ~PartnerAdminGate(c) THEN Out(apps, "denied")
    ELSE Out([i \in Ids |->
                IF apps[i].partner_group_id = c.partner_group_id /\ apps[i].approved_at = None
                THEN Approved(apps[i], now) ELSE apps[i]], "success")

\* action == 'approve', lines 5320-5373
approve(c, i) ==
    IF ~PartnerAdminGate(c) THEN Out(apps, "denied")
    ELSE IF i \notin Ids \/ apps[i].partner_group_id # c.partner_group_id THEN Out(apps, "none")
    ELSE CommitRow(i, Approved(apps[i], now))

\* action == 'delete', lines 5375-5416
approval_delete(c, i) ==
    IF ~PartnerAdminGate(c) THEN Out(apps, "denied")
    ELSE IF i \notin Ids \/ apps[i].partner_group_id # c.partner_group_id THEN Out(apps, "none")
    ELSE Out(Delete(i), "success")

\* action == 'save', lines 5418-5470
approval_save(c, i, d, plate) ==
    IF ~PartnerAdminGate(c) THEN Out(apps, "denied")
    ELSE IF i \notin Ids \/ apps[i].partner_group_id # c.partner_group_id THEN Out(apps, "none")
    ELSE CommitRow(i, [apps[i] EXCEPT !.desired_start_date = parse_date(d),
                                      !.car_plate = plate])

\* GET, lines 5480-5523
approval_list(c, rows) ==
    IF ~PartnerAdminGate(c) THEN Out(apps, "denied")
    ELSE Out(RecomputeRows(apps, {i \in rows \cap Ids :
                                    apps[i].partner_group_id = c.partner_group_id}, now),
             "none")

----------------------------------------------------------------------------
(* /admin/insurance-overview: admin_insurance_overview (admin_required) *)

\* datetime.strptime(v, '%Y-%m-%dT%H:%M').replace(tzinfo=KST) under "if v: try: ...
\* except ValueError: pass": None for an empty or unparsable field
strptime_kst(v) == IF v >= 0 THEN v ELSE None

\* "form value or the stored value": an empty or unparsable field keeps the column
OrKeep(v, old) == IF v # None THEN v ELSE old

\* faulty variant of OverviewSaved: it stores the approval time and leaves the status
OverviewSaved_keeps_status(a, d, plate, start_at, end_at, approved_at) ==
    LET a1 == [a EXCEPT !.desired_start_date = OrKeep(parse_date(d), @),
                        !.car_plate = IF plate # "" THEN plate ELSE @,
                        !.start_at = OrKeep(strptime_kst(start_at), @),
                        !.end_at = OrKeep(strptime_kst(end_at), @)]
    IN  IF strptime_kst(approved_at) # None
        THEN [a1 EXCEPT !.approved_at = strptime_kst(approved_at)]
        ELSE a1

\* action == 'save', lines 3602-3637
OverviewSaved(a, d, plate, start_at, end_at, approved_at) ==
    LET a1 == [a EXCEPT !.desired_start_date = OrKeep(parse_date(d), @),
                        !.car_plate = IF plate # "" THEN plate ELSE @,
                        !.start_at = OrKeep(strptime_kst(start_at), @),
                        !.end_at = OrKeep(strptime_kst(end_at), @)]
    IN  IF strptime_kst(approved_at) # None
        THEN [a1 EXCEPT !.approved_at = strptime_kst(approved_at),
                        !.status = ST_UNION]
        ELSE a1

\* action == 'save', lines 3596-3643
admin_insurance_overview_save(c, i, d, plate, start_at, end_at, approved_at) ==
    IF ~admin_required(c, members) THEN Out(apps, "denied")
    ELSE IF i \notin Ids THEN Out(apps, "danger")
    ELSE CommitRow(i, OverviewSaved(apps[i], d, plate, start_at, end_at, approved_at))

\* action == 'delete', lines 3645-3651
admin_insurance_overview_delete(c, i) ==
    IF ~admin_required(c, members) THEN Out(apps, "denied")
    ELSE IF i \notin Ids THEN Out(apps, "danger")
    ELSE Out(Delete(i), "success")

\* GET, lines 3663-3727
admin_insurance_overview_list(c, rows) ==
    IF ~admin_required(c, members) THEN Out(apps, "denied")
    ELSE Out(RecomputeRows(apps, rows \cap Ids, now), "none")

----------------------------------------------------------------------------
(* /admin/insurance: admin_insurance (admin_required).  Every POST but 'save'  *)
(* falls through to the list, which recomputes and commits the listed rows.   *)

\* the assignments of approve and bulk_approve, lines 6213-6219 and 6183-6189
AdminApproved(a, t) ==
    IF a.start_at = None
    THEN [a EXCEPT !.approved_at = t, !.status = ST_UNION,
                   !.start_at = Midnight(a.desired_start_date),
                   !.end_at = Midnight(a.desired_start_date) + CoverageHours]
    ELSE [a EXCEPT !.approved_at = t, !.status = ST_UNION]

\* bulk_approve == '1', lines 6173-6193, then the list of lines 6263-6291
admin_insurance_bulk_approve(c, rows) ==
    LET approved == [i \in Ids |-> IF apps[i].approved_at = None
                                   THEN AdminApproved(apps[i], now) ELSE apps[i]]
    IN  IF ~admin_required(c, members) THEN Out(apps, "denied")
        ELSE Out(RecomputeRows(approved, rows \cap Ids, now), "success")

\* action == 'approve', lines 6200-6224, then the list
admin_insurance_approve(c, i, rows) ==
    IF ~admin_required(c, members) THEN Out(apps, "denied")
    ELSE IF i \notin Ids THEN Out(RecomputeRows(apps, rows \cap Ids, now), "none")
    ELSE Out(RecomputeRows([apps EXCEPT ![i] = AdminApproved(apps[i], now)],
                           rows \cap Ids, now), "success")

\* action == 'delete', lines 6225-6230, then the list
admin_insurance_delete(c, i, rows) ==
    IF ~admin_required(c, members) THEN Out(apps, "denied")
    ELSE IF i \notin Ids THEN Out(RecomputeRows(apps, rows \cap Ids, now), "none")
    ELSE Out(RecomputeRows(Delete(i), rows \cap (Ids \ {i}), now), "success")

\* action == 'save', lines 6237-6246: start_at and end_at are overwritten, also by None
AdminSaved(a, d, plate, start_at, end_at) ==
    [a EXCEPT !.desired_start_date = parse_date(d),
              !.car_plate = plate,
              !.start_at = parse_datetime(start_at),
              !.end_at = parse_datetime(end_at)]

\* action == 'save', lines 6237-6261: it redirects, so the list does not run
admin_insurance_save(c, i, d, plate, start_at, end_at) ==
    IF ~admin_required(c, members) THEN Out(apps, "denied")
    ELSE IF i \notin Ids THEN Out(apps, "none")
    ELSE CommitRow(i, AdminSaved(apps[i], d, plate, start_at, end_at))

\* GET (and action == 'save_memo', which changes only the memo), lines 6263-6291
admin_insurance_list(c, rows) ==
    IF ~admin_required(c, members) THEN Out(apps, "denied")
    ELSE Out(RecomputeRows(apps, rows \cap Ids, now), "none")

----------------------------------------------------------------------------
(* The clock *)

Tick(step) ==
    /\ ticks < MaxTicks
    /\ now' = now + step
    /\ ticks' = ticks + 1
    /\ UNCHANGED <<apps, nextId, flash, members, groups, session, served, inflight>>

----------------------------------------------------------------------------
(* The lifecycle specification: requests of members, partner-group admins and   *)
(* global admins on the application table, and the passing of time             *)

\* the fixed login and password of lines 904-905 and 1728
BootstrapUsername == "hyundai"
BootstrapPassword == "#admin1004"
\* business_number of the account init_db_and_assets provisions, line 906
AdminBusinessNumber == "0000000000"

\* generate_password_hash and check_password_hash: the hash is not the password and
\* matches exactly the password it was made from (the salt is left out)
generate_password_hash(password) == <<"hash", password>>
check_password_hash(hash, password) == hash = generate_password_hash(password)

MemberRow(username, password, business_number, role, pg, status) ==
    [username |-> username, password_hash |-> generate_password_hash(password),
     business_number |-> business_number,
     role |-> role, partner_group_id |-> pg, approval_status |-> status]

\* member "kim" of group 1, member "lee" of group 2 and the global admin as
\* init_db_and_assets provisions it
InitMembers ==
    [m \in MemberIds \cup {AdminId} |->
        IF m = AdminId
        THEN MemberRow(BootstrapUsername, BootstrapPassword, AdminBusinessNumber,
                       "admin", None, "approved")
        ELSE MemberRow(IF m = 1 THEN "kim" ELSE "lee", "pw", "", "member", m, "approved")]

GroupRow(name, business_number, admin_username, admin_password) ==
    [name |-> name, business_number |-> business_number,
     admin_username |-> admin_username,
     admin_password_hash |-> generate_password_hash(admin_password)]

\* the two partner groups, each with its own name, business number and admin
\* credential
InitGroups ==
    [g \in Groups |-> IF g = 1 THEN GroupRow("busan", "3000000001", "park", "pw")
                                ELSE GroupRow("seoul", "3000000002", "choi", "pw")]

Init ==
    /\ apps = << >>
    /\ nextId = 1
    /\ now = 0
    /\ ticks = 0
    /\ flash = "none"
    /\ members = InitMembers
    /\ groups = InitGroups
    /\ session = [b \in Browsers |-> Anonymous]
    /\ served = None
    /\ inflight = NoPending

\* a new row is submitted only while fewer than cap ids have been handed out
Room(cap) == nextId <= cap

\* the callers that pass the gate of a partner-tier, partner-admin or admin screen;
\* every other caller is turned away whatever the form carries
PartnerTier == {c \in Callers : PartnerGroupOf(c, members) # None}
LoggedIn == {c \in Callers : is_authenticated(c, members)}
PartnerAdmins == {c \in Callers : PartnerAdminGate(c)}
Admins == {c \in Callers : admin_required(c, members)}

PartnerInsurance ==
    \/ \E c \in PartnerTier, d \in FormDates, plate \in Plates :
          Room(MaxApps) /\ Request(partner_insurance_apply(c, d, plate))
    \/ \E c \in PartnerTier, i \in Ids, d \in FormDates, plate \in Plates :
          Request(partner_insurance_save(c, i, d, plate))
    \/ \E c \in PartnerTier, i \in Ids : Request(partner_insurance_delete(c, i))
    \/ \E c \in PartnerTier, rows \in SUBSET Ids : Request(partner_insurance_list(c, rows))
    \/ \E c \in Callers \ PartnerTier : Request(partner_insurance_delete(c, 1))

Insurance ==
    \/ \E c \in LoggedIn, i \in Ids, d \in FormDates, plate \in Plates :
          Request(insurance_save(c, i, d, plate))
    \/ \E c \in LoggedIn, i \in Ids : Request(insurance_delete(c, i))
    \/ \E c \in LoggedIn, d \in FormDates, plate \in Plates :
          Room(MaxApps) /\ Request(insurance_new(c, d, plate))
    \/ \E c \in LoggedIn, rows \in SUBSET Ids : Request(insurance_list(c, rows))
    \/ \E c \in Callers \ LoggedIn : Request(insurance_delete(c, 1))

PartnerAdminInsuranceApproval ==
    \/ \E c \in PartnerAdmins : Request(bulk_approve(c))
    \/ \E c \in PartnerAdmins, i \in Ids : Request(approve(c, i))
    \/ \E c \in PartnerAdmins, i \in Ids : Request(approval_delete(c, i))
    \/ \E c \in PartnerAdmins, i \in Ids, d \in FormDates, plate \in Plates :
          Request(approval_save(c, i, d, plate))
    \/ \E c \in PartnerAdmins, rows \in SUBSET Ids : Request(approval_list(c, rows))
    \/ \E c \in Callers \ PartnerAdmins : Request(approve(c, 1))

AdminInsuranceOverview ==
    \/ \E c \in Admins, i \in Ids, d \in FormDates, plate \in Plates,
          s \in FormTimes, e \in FormTimes, t \in FormTimes :
            Request(admin_insurance_overview_save(c, i, d, plate, s, e, t))
    \/ \E c \in Admins, i \in Ids : Request(admin_insurance_overview_delete(c, i))
    \/ \E c \in Admins, rows \in SUBSET Ids : Request(admin_insurance_overview_list(c, rows))
    \/ \E c \in Callers \ Admins : Request(admin_insurance_overview_delete(c, 1))

AdminInsurance ==
    \/ \E c \in Admins, rows \in SUBSET Ids : Request(admin_insurance_bulk_approve(c, rows))
    \/ \E c \in Admins, i \in Ids, rows \in SUBSET Ids :
          Request(admin_insurance_approve(c, i, rows))
    \/ \E c \in Admins, i \in Ids, rows \in SUBSET Ids :
          Request(admin_insurance_delete(c, i, rows))
    \/ \E c \in Admins, i \in Ids, d \in FormDates, plate \in Plates,
          s \in FormTimes, e \in FormTimes :
            Request(admin_insurance_save(c, i, d, plate, s, e))
    \/ \E c \in Admins, rows \in SUBSET Ids : Request(admin_insurance_list(c, rows))
    \/ \E c \in Callers \ Admins : Request(admin_insurance_delete(c, 1, {}))

Next ==
    \/ PartnerInsurance
    \/ Insurance
    \/ PartnerAdminInsuranceApproval
    \/ AdminInsuranceOverview
    \/ AdminInsurance
    \/ \E step \in ClockSteps : Tick(step)

Spec == Init /\ [][Next]_vars

----------------------------------------------------------------------------
(* Login, logout and the admin member screen *)

\* a request of browser b that leaves session s in it, reports msg and ran an admin
\* view for user uid (None: no admin view ran); mem is the member table it commits
AuthRequest(b, s, mem, msg, uid) ==
    /\ session' = [session EXCEPT ![b] = s]
    /\ members' = mem
    /\ flash' = msg
    /\ served' = uid
    /\ UNCHANGED <<apps, nextId, now, ticks, groups, inflight>>

\* login with partner_group_id == 'admin', lines 1703-1830: the account is looked up
\* among the rows with no partner group and role 'admin'
login_admin(b, u, password_valid) ==
    IF /\ u \in DOMAIN members
       /\ members[u].partner_group_id = None
       /\ members[u].role = "admin"
       /\ password_valid
    THEN AuthRequest(b, [session[b] EXCEPT !.user_id = u, !.user_role = "admin",
                                           !.admin_selected = None],
                     members, "none", None)
    ELSE AuthRequest(b, session[b], members, "danger", None)

\* faulty variant of login_member: it does not look at approval_status
login_member_unchecked(b, u, g, password_valid) ==
    IF /\ u \in DOMAIN members
       /\ members[u].partner_group_id = g
       /\ members[u].role = "member"
       /\ password_valid
    THEN AuthRequest(b, [session[b] EXCEPT !.user_id = u,
                                           !.user_role = members[u].role],
                     members, "none", None)
    ELSE AuthRequest(b, session[b], members, "danger", None)

\* login of a member of group g, lines 1961-2066: role 'member', the password, and
\* approval_status '승인'
login_member(b, u, g, password_valid) ==
    IF /\ u \in DOMAIN members
       /\ members[u].partner_group_id = g
       /\ members[u].role = "member"
       /\ password_valid
    THEN IF members[u].approval_status # "approved"
         THEN AuthRequest(b, session[b], members, "warning", None)
         ELSE AuthRequest(b, [session[b] EXCEPT !.user_id = u,
                                                !.user_role = members[u].role],
                          members, "none", None)
    ELSE AuthRequest(b, session[b], members, "danger", None)

\* logout, lines 2106-2125
logout(b) == AuthRequest(b, Anonymous, members, "none", None)

\* the session admin_required leaves behind: a role it had to look up is cached
admin_required_session(s, mem) ==
    IF is_authenticated(s, mem) /\ s.user_role \in {"none", "member"}
    THEN [s EXCEPT !.user_role = mem[s.user_id].role]
    ELSE s

\* GET /admin/members, lines 5909-5912 and the list that follows
admin_members(b) ==
    LET s == admin_required_session(session[b], members)
    IN  IF admin_required(session[b], members)
        THEN AuthRequest(b, s, members, "none", s.user_id)
        ELSE AuthRequest(b, s, members, admin_required_flash(session[b], members), None)

\* action == 'save', lines 5926-5986: approval_status and role come from the form
admin_members_save(b, m, role, status) ==
    LET s == admin_required_session(session[b], members)
    IN  IF ~admin_required(session[b], members)
        THEN AuthRequest(b, s, members, admin_required_flash(session[b], members), None)
        ELSE IF m \notin DOMAIN members
        THEN AuthRequest(b, s, members, "none", s.user_id)
        ELSE AuthRequest(b, s,
                         [members EXCEPT ![m] = [@ EXCEPT !.role = role,
                                                          !.approval_status = status]],
                         "success", s.user_id)

\* action == 'update_status', lines 5920-5925
admin_members_update_status(b, m, status) ==
    LET s == admin_required_session(session[b], members)
    IN  IF ~admin_required(session[b], members)
        THEN AuthRequest(b, s, members, admin_required_flash(session[b], members), None)
        ELSE IF m \notin DOMAIN members
        THEN AuthRequest(b, s, members, "none", s.user_id)
        ELSE AuthRequest(b, s,
                         [members EXCEPT ![m] = [@ EXCEPT !.approval_status = status]],
                         "success", s.user_id)

(* The authentication specification: two browsers log in and out and use the    *)
(* admin member screen                                                          *)

Users == MemberIds \cup {AdminId}

NextAuth ==
    \/ \E b \in Browsers, u \in Users, pw \in BOOLEAN : login_admin(b, u, pw)
    \/ \E b \in Browsers, u \in Users, g \in Groups, pw \in BOOLEAN :
          login_member(b, u, g, pw)
    \/ \E b \in Browsers : logout(b)
    \/ \E b \in Browsers : admin_members(b)
    \/ \E b \in Browsers, m \in Users, role \in Roles, status \in ApprovalStatuses :
          admin_members_save(b, m, role, status)
    \/ \E b \in Browsers, m \in Users, status \in ApprovalStatuses :
          admin_members_update_status(b, m, status)

SpecAuth == Init /\ [][NextAuth]_vars

(* The two-application specification: the admin of group 1 submits and approves  *)
(* up to two applications, the approval screen lists some of them, and the      *)
(* global admin moves an end_at on the overview screen                          *)

MaxPair == MaxApps + 1

NextPair ==
    \/ \E d \in Days : /\ Room(MaxPair)
                       /\ Request(partner_insurance_apply(PartnerAdminSession(1), d, "12A3456"))
    \/ Request(bulk_approve(PartnerAdminSession(1)))
    \/ \E rows \in SUBSET Ids : Request(approval_list(PartnerAdminSession(1), rows))
    \/ \E i \in Ids, e \in FormTimes :
          Request(admin_insurance_overview_save(GlobalAdminSession, i, None, "",
                                                None, e, None))
    \/ \E step \in ClockSteps : Tick(step)

SpecPair == Init /\ [][NextPair]_vars

----------------------------------------------------------------------------
(* POST /login with concrete credentials, and the screens that edit them *)

\* the value of the group selector that stands for the global-admin section
\* ('admin' in the form, where the groups are numbered from 1)
AdminSelector == 0

Usernames == {BootstrapUsername, "kim", "park"}
Passwords == {BootstrapPassword, "pw"}
Selectors == {AdminSelector} \cup Groups

\* the rows the admin lookup of login matches: username, no partner group, role 'admin'
GlobalAdminRows(mem, username) ==
    {m \in DOMAIN mem : /\ mem[m].username = username
                        /\ mem[m].partner_group_id = None
                        /\ mem[m].role = "admin"}

\* what .first() can return: any matching row, or None when there is none
First(rows) == IF rows = {} THEN {None} ELSE rows

\* the id the database gives the next inserted member row
NewMemberId(mem) == Cardinality(DOMAIN mem) + 1

AddMember(mem, row) ==
    [m \in DOMAIN mem \cup {NewMemberId(mem)} |->
        IF m \in DOMAIN mem THEN mem[m] ELSE row]

\* the bootstrap branch creates the global admin row, or resets the one it found
BootstrapAdmin(mem, u, password) ==
    IF u = None
    THEN AddMember(mem, MemberRow(BootstrapUsername, password, "", "admin", None, "approved"))
    ELSE [mem EXCEPT ![u] = [@ EXCEPT !.password_hash = generate_password_hash(password),
                                      !.approval_status = "approved",
                                      !.role = "admin"]]

\* PartnerGroup.admin_username is declared unique: a commit that breaks it fails
AdminUsernamesUnique(grp) ==
    \A g, h \in DOMAIN grp : grp[g].admin_username = grp[h].admin_username => g = h

\* faulty variant of GroupTableValid: the name is not declared unique
GroupTableValid_no_name(grp) ==
    /\ AdminUsernamesUnique(grp)
    /\ \A g, h \in DOMAIN grp : grp[g].business_number = grp[h].business_number => g = h

\* the unique columns of partner_group: name, admin_username and business_number
GroupTableValid(grp) ==
    /\ AdminUsernamesUnique(grp)
    /\ \A g, h \in DOMAIN grp : grp[g].name = grp[h].name => g = h
    /\ \A g, h \in DOMAIN grp : grp[g].business_number = grp[h].business_number => g = h

\* the result of one POST /login: the session, the committed tables, the flash
\* category, the branch that decided and whether a login was established
LoginOut(s, mem, grp, msg, branch, ok) ==
    [session |-> s, members |-> mem, groups |-> grp, flash |-> msg,
     branch |-> branch, ok |-> ok]

Rejected(s, mem, grp, branch) == LoginOut(s, mem, grp, "danger", branch, FALSE)

\* the member branch of login: role 'member' in the selected group, the password,
\* then approval_status
login_as_member(s, mem, grp, username, password, g) ==
    LET rows == {m \in DOMAIN mem : /\ mem[m].username = username
                                    /\ mem[m].partner_group_id = g
                                    /\ mem[m].role = "member"}
    IN  IF rows = {} THEN Rejected(s, mem, grp, "member")
        ELSE LET m == CHOOSE r \in rows : TRUE
             IN  IF ~check_password_hash(mem[m].password_hash, password)
                 THEN Rejected(s, mem, grp, "member")
                 ELSE IF mem[m].approval_status # "approved"
                 THEN LoginOut(s, mem, grp, "warning", "member", FALSE)
                 ELSE LoginOut([s EXCEPT !.user_id = m, !.user_role = mem[m].role],
                               mem, grp, "none", "member", TRUE)

\* login with a partner group selected: the bootstrap pair, then a global admin of
\* that username, then the group's admin credential, then a member of the group
login_in_group(s, mem, grp, username, password, g, u) ==
    IF g \notin DOMAIN grp THEN Rejected(s, mem, grp, "no_group")
    ELSE IF username = BootstrapUsername /\ password = BootstrapPassword
    THEN LET granted == [grp EXCEPT ![g] =
                            [@ EXCEPT !.admin_username = username,
                                      !.admin_password_hash =
                                          generate_password_hash(password)]]
             uid == IF u = None THEN NewMemberId(mem) ELSE u
         IN  IF GroupTableValid(granted)
             THEN LoginOut([s EXCEPT !.user_id = uid, !.user_role = "admin",
                                     !.admin_selected = g, !.partner_group_id = g,
                                     !.user_type = "partner_admin"],
                           BootstrapAdmin(mem, u, password), granted, "none",
                           "bootstrap_group", TRUE)
             ELSE Rejected(s, mem, grp, "bootstrap_group")
    ELSE IF u # None
    THEN IF check_password_hash(mem[u].password_hash, password)
         THEN LoginOut([s EXCEPT !.user_id = u, !.user_role = "admin",
                                 !.admin_selected = g],
                       mem, grp, "none", "admin_in_group", TRUE)
         ELSE Rejected(s, mem, grp, "admin_in_group")
    ELSE IF grp[g].admin_username = username
    THEN IF check_password_hash(grp[g].admin_password_hash, password)
         THEN LoginOut([s EXCEPT !.user_type = "partner_admin", !.partner_group_id = g,
                                 !.user_role = "partner_admin"],
                       mem, grp, "none", "partner_admin", TRUE)
         ELSE Rejected(s, mem, grp, "partner_admin")
    ELSE login_as_member(s, mem, grp, username, password, g)

\* login with the global-admin section selected: the bootstrap pair, then the
\* password of the global admin row of that username
login_as_admin(s, mem, grp, username, password, u) ==
    IF username = BootstrapUsername /\ password = BootstrapPassword
    THEN LoginOut([s EXCEPT !.user_id = IF u = None THEN NewMemberId(mem) ELSE u,
                            !.user_role = "admin", !.admin_selected = None],
                  BootstrapAdmin(mem, u, password), grp, "none", "bootstrap_admin", TRUE)
    ELSE IF u # None /\ check_password_hash(mem[u].password_hash, password)
    THEN LoginOut([s EXCEPT !.user_id = u, !.user_role = "admin",
                            !.admin_selected = None],
                  mem, grp, "none", "admin", TRUE)
    ELSE Rejected(s, mem, grp, "admin")

\* POST /login from a browser whose session is s; u is the row the admin lookup
\* returned, one of First(GlobalAdminRows(mem, username))
login(s, mem, grp, username, password, selector, u) ==
    IF selector = AdminSelector
    THEN login_as_admin(s, mem, grp, username, password, u)
    ELSE login_in_group(s, mem, grp, username, password, selector, u)

\* a request of browser b that commits both credential tables
CredentialRequest(b, s, mem, grp, msg) ==
    /\ session' = [session EXCEPT ![b] = s]
    /\ members' = mem
    /\ groups' = grp
    /\ flash' = msg
    /\ served' = None
    /\ UNCHANGED <<apps, nextId, now, ticks, inflight>>

Login(b, username, password, selector, u) ==
    LET o == login(session[b], members, groups, username, password, selector, u)
    IN  CredentialRequest(b, o.session, o.members, o.groups, o.flash)

\* /admin/administrators, action == 'save': the username comes from the form, a
\* password given in the form replaces the stored one, the account stays active
\* with the admin permission
admin_administrators_save(b, m, username, password) ==
    /\ admin_required(session[b], members)
    /\ m \in DOMAIN members
    /\ members[m].partner_group_id = None
    /\ CredentialRequest(b, session[b],
          [members EXCEPT ![m] =
              [@ EXCEPT !.username = username,
                        !.password_hash = IF password = "" THEN @
                                          ELSE generate_password_hash(password),
                        !.approval_status = "approved",
                        !.role = "admin"]],
          groups, "success")

\* /admin/partner-groups, action == 'save': the group's admin username comes from
\* the form, a password given in the form replaces the stored one
admin_partner_groups_save(b, g, admin_username, admin_password) ==
    LET saved == [groups EXCEPT ![g] =
                     [@ EXCEPT !.admin_username = admin_username,
                               !.admin_password_hash =
                                   IF admin_password = "" THEN @
                                   ELSE generate_password_hash(admin_password)]]
    IN  /\ admin_required(session[b], members)
        /\ IF GroupTableValid(saved)
           THEN CredentialRequest(b, session[b], members, saved, "success")
           ELSE CredentialRequest(b, session[b], members, groups, "danger")

\* the role select of the admin member screen, applied to a global account
admin_members_set_role(b, m, role) ==
    /\ admin_required(session[b], members)
    /\ m \in DOMAIN members
    /\ members[m].partner_group_id = None
    /\ admin_members_save(b, m, role, members[m].approval_status)

\* init_db_and_assets, the admin account: the row named 'hyundai', else the row
\* with the admin business number, else any row of role 'admin' is made the
\* bootstrap admin again; with none of them a new row is created
init_admin(mem, u) ==
    IF u = None
    THEN AddMember(mem, MemberRow(BootstrapUsername, BootstrapPassword,
                                  AdminBusinessNumber, "admin", None, "approved"))
    ELSE [mem EXCEPT ![u] =
            [@ EXCEPT !.username = BootstrapUsername,
                      !.business_number =
                          IF \E m \in DOMAIN mem : mem[m].business_number = AdminBusinessNumber
                          THEN @ ELSE AdminBusinessNumber,
                      !.role = "admin",
                      !.approval_status = "approved",
                      !.password_hash = generate_password_hash(BootstrapPassword)]]

InitAdminRows(mem) ==
    LET named  == {m \in DOMAIN mem : mem[m].username = BootstrapUsername}
        number == {m \in DOMAIN mem : mem[m].business_number = AdminBusinessNumber}
        admins == {m \in DOMAIN mem : mem[m].role = "admin"}
    IN  IF named # {} THEN named
        ELSE IF number # {} THEN number
        ELSE admins

\* a restart of the application: the next request runs init_db_and_assets
init_db_and_assets(u) ==
    /\ u \in First(InitAdminRows(members))
    /\ members' = init_admin(members, u)
    /\ flash' = "none"
    /\ served' = None
    /\ UNCHANGED <<apps, nextId, now, ticks, groups, session, inflight>>

(* The login specification: one browser logs in with every combination of the  *)
(* usernames, passwords and selectors, logs out, and as global admin edits the *)
(* admin accounts and the credential of group 1                                *)

MaxMembers == 4

NextLogin ==
    \/ \E username \in Usernames, password \in Passwords, selector \in Selectors :
          \E u \in First(GlobalAdminRows(members, username)) :
             /\ u = None /\ username = BootstrapUsername /\ password = BootstrapPassword
                   => Cardinality(DOMAIN members) < MaxMembers
             /\ Login(1, username, password, selector, u)
    \/ logout(1)
    \/ \E m \in 1..MaxMembers, username \in Usernames, password \in Passwords \cup {""} :
          admin_administrators_save(1, m, username, password)
    \/ \E admin_username \in Usernames, admin_password \in Passwords \cup {""} :
          admin_partner_groups_save(1, 1, admin_username, admin_password)
    \/ \E m \in 1..MaxMembers, role \in Roles : admin_members_set_role(1, m, role)
    \/ \E u \in 1..MaxMembers \cup {None} : init_db_and_assets(u)

SpecLogin == Init /\ [][NextLogin]_vars

----------------------------------------------------------------------------
(* Settlement: the month window and the rows each view counts *)

\* the calendar behind the hour clock: day 0 is the last day of January, so the
\* two days of Days lie in different months
DaysInMonth == <<31, 28, 31, 30, 31, 30, 31, 31, 30, 31, 30, 31>>
Months == 1..Len(DaysInMonth)

RECURSIVE DaysBefore(_)
DaysBefore(month) ==
    IF month = 1 THEN 0 ELSE DaysBefore(month - 1) + DaysInMonth[month - 1]

\* datetime(year, month, 1, tzinfo=KST) of the modelled year, in hours
FirstOfMonth(month) == Midnight(DaysBefore(month) - (DaysInMonth[1] - 1))

\* datetime(year + 1, 1, 1, tzinfo=KST)
FirstOfNextYear == FirstOfMonth(1) + Midnight(DaysBefore(Len(DaysInMonth)) + DaysInMonth[Len(DaysInMonth)])

\* start_period and next_month of the three settlement views
start_period(month) == FirstOfMonth(month)
next_month(month) == IF month = 12 THEN FirstOfNextYear ELSE FirstOfMonth(month + 1)

\* the query of the views: start_at set and inside the month, in any group (pg = None)
\* or in group pg
settlement_query(month, pg) ==
    {i \in Ids : /\ apps[i].start_at # None
                 /\ apps[i].start_at >= start_period(month)
                 /\ apps[i].start_at < next_month(month)
                 /\ pg # None => apps[i].partner_group_id = pg}

\* app.created_by_member: the creator row, when the application names one
created_by_member(a) ==
    a.created_by_member_id # None /\ a.created_by_member_id \in DOMAIN members

\* /admin/settlement-overview: the rows that reach a bucket
admin_settlement_overview(month, pg) ==
    {i \in settlement_query(month, pg) :
        apps[i].partner_group_id \in Groups /\ created_by_member(apps[i])}

\* /partner/admin/settlement: the rows of the caller's group that reach a bucket
partner_admin_settlement(c, month) ==
    IF ~PartnerAdminGate(c) THEN {}
    ELSE {i \in settlement_query(month, c.partner_group_id) : created_by_member(apps[i])}

\* /admin/settlement: every selected row reaches a bucket ('미상' without a creator)
admin_settlement(month) == settlement_query(month, None)

(* Settlement aggregation: the buckets and totals each view reports *)

\* the amount a view adds per counted application
OverviewUnitPrice == 95000
PartnerUnitPrice == 9500
AdminSettlementUnitPrice == 9500

\* the bucket key of a creator: each member account stands for one company, so
\* (company_name, representative, business_number) is modelled by the username
company_key(a) == members[a.created_by_member_id].username

\* the key /admin/settlement uses for a row without a creator ('미상')
UnknownCompany == "unknown"

NoBuckets == [k \in {} |-> [count |-> 0, amount |-> 0]]

\* the first row a loop over the query result visits
FirstRow(rows) == CHOOSE i \in rows : \A j \in rows : i <= j

\* bucket k of acc with one more application of the given price
Counted(acc, k, price) ==
    [x \in DOMAIN acc \cup {k} |->
        IF x = k
        THEN IF k \in DOMAIN acc
             THEN [count |-> acc[k].count + 1, amount |-> acc[k].amount + price]
             ELSE [count |-> 1, amount |-> price]
        ELSE acc[x]]

\* the loop of partner_admin_settlement: a row with a creator adds 1 and the unit
\* price to its company's bucket, a row without one is skipped
RECURSIVE PartnerBuckets(_, _)
PartnerBuckets(rows, acc) ==
    IF rows = {} THEN acc
    ELSE LET i == FirstRow(rows)
         IN  PartnerBuckets(rows \ {i},
                IF created_by_member(apps[i])
                THEN Counted(acc, company_key(apps[i]), PartnerUnitPrice)
                ELSE acc)

\* sum(s[field] for s in buckets.values())
RECURSIVE SumOf(_, _, _)
SumOf(buckets, keys, field) ==
    IF keys = {} THEN 0
    ELSE LET k == CHOOSE k \in keys : TRUE
         IN  buckets[k][field] + SumOf(buckets, keys \ {k}, field)

\* faulty variant of partner_admin_settlement_result: a month without rows is
\* turned away like a missing group
partner_admin_settlement_result_strict(c, month) ==
    IF ~PartnerAdminGate(c) \/ settlement_query(month, c.partner_group_id) = {}
    THEN [denied |-> TRUE, settlements |-> NoBuckets, total_count |-> 0, total_amount |-> 0]
    ELSE LET settlements == PartnerBuckets(settlement_query(month, c.partner_group_id),
                                           NoBuckets)
         IN  [denied |-> FALSE, settlements |-> settlements,
              total_count |-> SumOf(settlements, DOMAIN settlements, "count"),
              total_amount |-> SumOf(settlements, DOMAIN settlements, "amount")]

\* GET /partner/admin/settlement: denied without a partner-admin session, else
\* the company buckets of the caller's group and their totals
partner_admin_settlement_result(c, month) ==
    IF ~PartnerAdminGate(c)
    THEN [denied |-> TRUE, settlements |-> NoBuckets, total_count |-> 0, total_amount |-> 0]
    ELSE LET settlements == PartnerBuckets(settlement_query(month, c.partner_group_id),
                                           NoBuckets)
         IN  [denied |-> FALSE, settlements |-> settlements,
              total_count |-> SumOf(settlements, DOMAIN settlements, "count"),
              total_amount |-> SumOf(settlements, DOMAIN settlements, "amount")]

\* the loop of admin_settlement_overview for the rows of one group: a row with a
\* creator adds 1 and the unit price to its company's bucket and to the group's
\* totals, a row without one is skipped
RECURSIVE OverviewGroup(_, _)
OverviewGroup(rows, acc) ==
    IF rows = {} THEN acc
    ELSE LET i == FirstRow(rows)
         IN  OverviewGroup(rows \ {i},
                IF created_by_member(apps[i])
                THEN [companies |-> Counted(acc.companies, company_key(apps[i]),
                                            OverviewUnitPrice),
                      total_count |-> acc.total_count + 1,
                      total_amount |-> acc.total_amount + OverviewUnitPrice]
                ELSE acc)

\* GET /admin/settlement-overview: a subtotal per group that has a counted row,
\* and the grand totals over the groups
admin_settlement_overview_result(month, pg) ==
    LET rows == settlement_query(month, pg)
        counted == {g \in Groups : \E i \in rows : /\ apps[i].partner_group_id = g
                                                   /\ created_by_member(apps[i])}
        settlements_by_group ==
            [g \in counted |->
                OverviewGroup({i \in rows : apps[i].partner_group_id = g},
                              [companies |-> NoBuckets, total_count |-> 0,
                               total_amount |-> 0])]
    IN  [settlements_by_group |-> settlements_by_group,
         grand_total_count |-> SumOf(settlements_by_group, counted, "total_count"),
         grand_total_amount |-> SumOf(settlements_by_group, counted, "total_amount")]

\* the first loop of admin_settlement: every row adds 1 to its company's count,
\* a row without a creator to the unknown company's
RECURSIVE ByCompany(_, _)
ByCompany(rows, acc) ==
    IF rows = {} THEN acc
    ELSE LET i == FirstRow(rows)
             k == IF created_by_member(apps[i]) THEN company_key(apps[i])
                  ELSE UnknownCompany
         IN  ByCompany(rows \ {i},
                [x \in DOMAIN acc \cup {k} |->
                    IF x = k THEN (IF k \in DOMAIN acc THEN acc[k] ELSE 0) + 1
                    ELSE acc[x]])

\* GET /admin/settlement: amount = count * 9500 per company, and the totals
admin_settlement_result(month) ==
    LET by_company == ByCompany(settlement_query(month, None), [k \in {} |-> 0])
        settlements == [k \in DOMAIN by_company |->
                           [count |-> by_company[k],
                            amount |-> by_company[k] * AdminSettlementUnitPrice]]
    IN  [settlements |-> settlements,
         total_count |-> SumOf(settlements, DOMAIN settlements, "count"),
         total_amount |-> SumOf(settlements, DOMAIN settlements, "amount")]

\* faulty variant of partner_admin_settlement_view: it fills in the start_at of
\* the group's rows that have none before it selects
partner_admin_settlement_view_filling(c, month) ==
    IF ~PartnerAdminGate(c) THEN Out(apps, "denied")
    ELSE Out([i \in Ids |->
                IF apps[i].partner_group_id = c.partner_group_id /\ apps[i].start_at = None
                THEN [apps[i] EXCEPT !.start_at = Midnight(apps[i].desired_start_date)]
                ELSE apps[i]], "none")

\* what a settlement request leaves in the store: the views only read
partner_admin_settlement_view(c, month) ==
    Out(apps, IF partner_admin_settlement_result(c, month).denied THEN "denied" ELSE "none")

admin_settlement_overview_view(c, month, pg) ==
    Out(apps, IF admin_required(c, members) THEN "none" ELSE "denied")

admin_settlement_view(c, month) ==
    Out(apps, IF admin_required(c, members) THEN "none" ELSE "denied")

(* The settlement specification: members 1 and 2 and the admin of group 1 submit *)
(* up to three applications, the global admin approves what is pending, the     *)
(* clock advances, the insurance list re-evaluates statuses, and the three      *)
(* settlement views are requested                                               *)

MaxSettle == MaxApps + 2

Submitters == {MemberSession(1), MemberSession(2), PartnerAdminSession(1)}
Viewers == {PartnerAdminSession(1), GlobalAdminSession, MemberSession(1)}
SettleMonths == {1, 2}

NextSettle ==
    \/ \E c \in Submitters, d \in Days :
          /\ Room(MaxSettle)
          /\ Request(partner_insurance_apply(c, d, "12A3456"))
    \/ Request(admin_insurance_bulk_approve(GlobalAdminSession, {}))
    \/ Request(admin_insurance_list(GlobalAdminSession, Ids))
    \/ \E c \in Viewers, month \in SettleMonths :
          Request(partner_admin_settlement_view(c, month))
    \/ \E c \in Viewers, month \in SettleMonths, pg \in Groups \cup {None} :
          Request(admin_settlement_overview_view(c, month, pg))
    \/ \E c \in Viewers, month \in SettleMonths :
          Request(admin_settlement_view(c, month))
    \/ Tick(1)

SpecSettle == Init /\ [][NextSettle]_vars

----------------------------------------------------------------------------
(* Creating members: registration, the partner admin's add, the admin's create *)

NewUsernames == {"kim", "park"}
BusinessNumbers == {"1111111111", "2222222222"}

\* the result of a request on the member table
MemberOut(mem, msg) == [members |-> mem, flash |-> msg]

\* uq_member_username_partner as the database enforces it: two rows of one
\* partner group cannot share a username (rows without a group are not compared)
MemberTableValid(mem) ==
    \A m, n \in DOMAIN mem :
       (/\ mem[m].partner_group_id # None
        /\ mem[m].partner_group_id = mem[n].partner_group_id
        /\ mem[m].username = mem[n].username)
       => m = n

\* safe_commit of a request that adds a member row
CommitMember(row) ==
    IF MemberTableValid(AddMember(members, row))
    THEN MemberOut(AddMember(members, row), "success")
    ELSE MemberOut(members, "danger")

\* POST /register: the username must be free in the group and the business
\* number free in every group; the row starts as a member awaiting approval
register(username, password, business_number, g) ==
    IF \E m \in DOMAIN members : /\ members[m].username = username
                                 /\ members[m].partner_group_id = g
    THEN MemberOut(members, "danger")
    ELSE IF /\ business_number # ""
            /\ \E m \in DOMAIN members : members[m].business_number = business_number
    THEN MemberOut(members, "danger")
    ELSE CommitMember(MemberRow(username, password, business_number, "member", g, "applied"))

\* /partner/admin/members, action == 'add': the duplicate check looks at the
\* caller's group only
partner_admin_member_add(c, username, password, business_number, status) ==
    IF ~PartnerAdminGate(c) THEN MemberOut(members, "denied")
    ELSE IF username = "" \/ password = "" \/ business_number = ""
    THEN MemberOut(members, "warning")
    ELSE IF \E m \in DOMAIN members :
               /\ members[m].partner_group_id = c.partner_group_id
               /\ \/ members[m].username = username
                  \/ members[m].business_number = business_number
    THEN MemberOut(members, "danger")
    ELSE CommitMember(MemberRow(username, password, business_number, "member",
                                c.partner_group_id, status))

\* /admin/members, action == 'create': the duplicate check looks at every row
admin_members_create(c, g, username, password, business_number) ==
    IF ~admin_required(c, members) THEN MemberOut(members, "denied")
    ELSE IF username = "" \/ business_number = "" THEN MemberOut(members, "warning")
    ELSE IF \E m \in DOMAIN members : \/ members[m].username = username
                                      \/ members[m].business_number = business_number
    THEN MemberOut(members, "danger")
    ELSE CommitMember(MemberRow(username, password, business_number, "member", g, "approved"))

\* a request that commits the member table
MemberRequest(out) ==
    /\ members' = out.members
    /\ flash' = out.flash
    /\ UNCHANGED <<apps, nextId, now, ticks, groups, session, served, inflight>>

(* The member specification: visitors register, the admins of both groups add  *)
(* members and the global admin creates members, up to MaxRoster rows           *)

MaxRoster == 6

NextMembers ==
    \/ \E username \in NewUsernames, business_number \in BusinessNumbers, g \in Groups :
          /\ Cardinality(DOMAIN members) < MaxRoster
          /\ MemberRequest(register(username, "pw", business_number, g))
    \/ \E g \in Groups, username \in NewUsernames, business_number \in BusinessNumbers,
          status \in ApprovalStatuses :
          /\ Cardinality(DOMAIN members) < MaxRoster
          /\ MemberRequest(partner_admin_member_add(PartnerAdminSession(g), username, "pw",
                                                    business_number, status))
    \/ \E g \in Groups, username \in NewUsernames, business_number \in BusinessNumbers :
          /\ Cardinality(DOMAIN members) < MaxRoster
          /\ MemberRequest(admin_members_create(GlobalAdminSession, g, username, "pw",
                                                business_number))
    \/ \E c \in {Anonymous, MemberSession(1)} :
          MemberRequest(partner_admin_member_add(c, "park", "pw", "1111111111", "applied"))

SpecMembers == Init /\ [][NextMembers]_vars

----------------------------------------------------------------------------
(* /admin/partner-groups: admin_partner_groups (create, save, delete) *)

\* what the database holds: the three tables a partner-group request can touch
Db(grp, mem, tbl) == [groups |-> grp, members |-> mem, apps |-> tbl]

Persisted == Db(groups, members, apps)

\* the constraints the database checks when a transaction is committed: the unique
\* columns of partner_group, uq_member_username_partner, and the NOT NULL columns
\* of insurance_application
DbValid(db) ==
    /\ GroupTableValid(db.groups)
    /\ MemberTableValid(db.members)
    /\ \A i \in DOMAIN db.apps : RowValid(db.apps[i])

\* faulty variant of safe_commit: no rollback, the tables that pass their own
\* constraints stay written
safe_commit_no_rollback(persisted, pending) ==
    IF DbValid(pending) THEN [ok |-> TRUE, db |-> pending]
    ELSE [ok |-> FALSE,
          db |-> Db(IF GroupTableValid(pending.groups)
                    THEN pending.groups ELSE persisted.groups,
                    IF MemberTableValid(pending.members)
                    THEN pending.members ELSE persisted.members,
                    IF \A i \in DOMAIN pending.apps : RowValid(pending.apps[i])
                    THEN pending.apps ELSE persisted.apps)]

\* safe_commit: db.session.commit() stores every pending change; any exception is
\* caught, db.session.rollback() discards every pending change, and the caller
\* gets False
safe_commit(persisted, pending) ==
    IF DbValid(pending) THEN [ok |-> TRUE, db |-> pending]
    ELSE [ok |-> FALSE, db |-> persisted]

\* the result of a partner-group request: the three tables and the message flashed
GroupOut(db, msg) ==
    [groups |-> db.groups, members |-> db.members, apps |-> db.apps, flash |-> msg]

\* the id the database gives the next partner_group row
NewGroupId(grp) ==
    IF DOMAIN grp = {} THEN 1
    ELSE (CHOOSE g \in DOMAIN grp : \A h \in DOMAIN grp : h <= g) + 1

\* action == 'create': name and business_number are required, a row that shares
\* the name, the business number or the admin username with an existing group is
\* refused before anything is added
admin_partner_groups_create(c, name, business_number, admin_username, admin_password) ==
    LET id == NewGroupId(groups)
        added == [g \in DOMAIN groups \cup {id} |->
                     IF g = id
                     THEN GroupRow(name, business_number, admin_username, admin_password)
                     ELSE groups[g]]
        done == safe_commit(Persisted, Db(added, members, apps))
    IN  IF ~admin_required(c, members) THEN GroupOut(Persisted, "denied")
        ELSE IF name = "" \/ business_number = "" THEN GroupOut(Persisted, "warning")
        ELSE IF \E g \in DOMAIN groups : \/ groups[g].name = name
                                         \/ groups[g].business_number = business_number
                                         \/ groups[g].admin_username = admin_username
        THEN GroupOut(Persisted, "exists")
        ELSE GroupOut(done.db, IF done.ok THEN "created" ELSE "create_failed")

\* action == 'save': the form's name, admin username and business number are
\* written to the row without a duplicate check, and a password only when the form
\* carries one; the commit decides
admin_partner_groups_update(c, g, name, business_number, admin_username, admin_password) ==
    LET saved == [groups EXCEPT ![g] =
                     [@ EXCEPT !.name = name,
                               !.business_number = business_number,
                               !.admin_username = admin_username,
                               !.admin_password_hash =
                                   IF admin_password = "" THEN @
                                   ELSE generate_password_hash(admin_password)]]
        done == safe_commit(Persisted, Db(saved, members, apps))
    IN  IF ~admin_required(c, members) THEN GroupOut(Persisted, "denied")
        ELSE IF g \notin DOMAIN groups THEN GroupOut(Persisted, "none")
        ELSE GroupOut(done.db, IF done.ok THEN "saved" ELSE "save_failed")

\* Member.partner_group and InsuranceApplication.partner_group are relationships
\* without a cascade option: when the group row is deleted the session writes NULL
\* into the partner_group_id of every row of its members and
\* insurance_applications collections
Detached(tbl, g) ==
    [i \in DOMAIN tbl |-> IF tbl[i].partner_group_id = g
                          THEN [tbl[i] EXCEPT !.partner_group_id = None]
                          ELSE tbl[i]]

\* action == 'delete': db.session.delete(group), then safe_commit()
admin_partner_groups_delete(c, g) ==
    LET removed == [h \in DOMAIN groups \ {g} |-> groups[h]]
        done == safe_commit(Persisted,
                            Db(removed, Detached(members, g), Detached(apps, g)))
    IN  IF ~admin_required(c, members) THEN GroupOut(Persisted, "denied")
        ELSE IF g \notin DOMAIN groups THEN GroupOut(Persisted, "none")
        ELSE GroupOut(done.db, IF done.ok THEN "deleted" ELSE "delete_failed")

\* a request that commits the three tables
GroupRequest(out) ==
    /\ groups' = out.groups
    /\ members' = out.members
    /\ apps' = out.apps
    /\ flash' = out.flash
    /\ UNCHANGED <<nextId, now, ticks, session, served, inflight>>

(* The partner-group specification: the global admin creates, edits and deletes *)
(* partner groups, the bootstrap pair logs in with a group selected, and member *)
(* 1 submits an application                                                     *)

MaxGroups == 3
GroupIds == 1..MaxGroups
GroupNames == {"busan", "seoul", "ulsan"}
GroupBusinessNumbers == {"3000000001", "3000000003"}
GroupAdminUsernames == {"park", BootstrapUsername}

NextGroups ==
    \/ \E name \in GroupNames, business_number \in GroupBusinessNumbers,
          admin_username \in GroupAdminUsernames :
          /\ NewGroupId(groups) \in GroupIds
          /\ GroupRequest(admin_partner_groups_create(GlobalAdminSession, name,
                                                      business_number, admin_username, "pw"))
    \/ \E g \in GroupIds, name \in GroupNames, business_number \in GroupBusinessNumbers,
          admin_username \in GroupAdminUsernames :
          GroupRequest(admin_partner_groups_update(GlobalAdminSession, g, name,
                                                   business_number, admin_username, ""))
    \/ \E g \in GroupIds : GroupRequest(admin_partner_groups_delete(GlobalAdminSession, g))
    \/ \E c \in {Anonymous, MemberSession(1)} :
          GroupRequest(admin_partner_groups_delete(c, 1))
    \/ \E g \in GroupIds, u \in First(GlobalAdminRows(members, BootstrapUsername)) :
          Login(1, BootstrapUsername, BootstrapPassword, g, u)
    \/ /\ Room(MaxApps)
       /\ Request(partner_insurance_apply(MemberSession(1), 0, "12A3456"))

SpecGroups == Init /\ [][NextGroups]_vars

----------------------------------------------------------------------------
(* What a list view shows: the rows the template reads after the commit *)

\* the page a list view renders: the rows listed and the status shown for each
Page(listed, tbl) == [listed |-> listed, status |-> [i \in listed |-> tbl[i].status]]

\* GET /insurance, lines 3039-3082: safe_commit runs only when a status changed;
\* when the commit fails its rollback expires every loaded row, and the template
\* reads the rows again from the table
insurance_page(c, rows, commit_ok) ==
    LET listed == {i \in rows \cap Ids : apps[i].created_by_member_id = c.user_id}
        computed == RecomputeRows(apps, listed, now)
        changed == \E i \in listed : computed[i].status # apps[i].status
    IN  Page(listed, IF changed /\ ~commit_ok THEN apps ELSE computed)

\* GET /partner/insurance, lines 4548-4563: safe_commit always runs
partner_insurance_page(c, rows, commit_ok) ==
    LET listed == rows \cap PartnerInsuranceRows(c)
    IN  Page(listed, IF commit_ok THEN RecomputeRows(apps, listed, now) ELSE apps)

----------------------------------------------------------------------------
(* The partner-tier specification: the requests of members and partner-group   *)
(* admins, without the global admin's screens, and the passing of time          *)

NextPartner ==
    \/ PartnerInsurance
    \/ Insurance
    \/ PartnerAdminInsuranceApproval
    \/ \E step \in ClockSteps : Tick(step)

SpecPartner == Init /\ [][NextPartner]_vars

----------------------------------------------------------------------------
(* The shared-browser specification: the admin of group 1 and member kim log in *)
(* and out of one browser, and the browser's session submits, edits, deletes    *)
(* and approves applications                                                    *)

SharedLogins == {"kim", "park"}

NextShared ==
    \/ \E username \in SharedLogins : Login(1, username, "pw", 1, None)
    \/ logout(1)
    \/ \E d \in Days : /\ Room(MaxPair)
                       /\ Request(partner_insurance_apply(session[1], d, "12A3456"))
    \/ \E i \in Ids, d \in Days : Request(partner_insurance_save(session[1], i, d, "12A3456"))
    \/ \E i \in Ids : Request(partner_insurance_delete(session[1], i))
    \/ \E i \in Ids, d \in Days : Request(insurance_save(session[1], i, d, "12A3456"))
    \/ \E i \in Ids : Request(insurance_delete(session[1], i))
    \/ \E i \in Ids : Request(approve(session[1], i))
    \/ \E i \in Ids : Request(approval_delete(session[1], i))

SpecShared == Init /\ [][NextShared]_vars

----------------------------------------------------------------------------
(* A member's save or delete on /partner/insurance as the two steps it takes    *)
(* when requests run side by side: the row is loaded and checked, then written  *)

\* lines 4402-4415: db.session.get loads the row; the handler goes on only when
\* the row is of the caller's group, the caller may touch it, and its approved_at
\* is unset
loaded_and_checked(c, i) ==
    /\ PartnerGroupOf(c, members) # None
    /\ i \in Ids
    /\ apps[i].partner_group_id = PartnerGroupOf(c, members)
    /\ is_partner_admin(c) \/ apps[i].created_by_member_id = c.user_id
    /\ apps[i].approved_at = None

LoadAndCheck(c, op, i, d, plate) ==
    /\ inflight = NoPending
    /\ loaded_and_checked(c, i)
    /\ inflight' = [op |-> op, user_id |-> c.user_id, row |-> i,
                    desired_start_date |-> parse_date(d), car_plate |-> plate]
    /\ UNCHANGED <<apps, nextId, now, ticks, flash, members, groups, session, served>>

\* lines 4416-4509: db.session.delete(application), or the assignment of the form
\* fields, then safe_commit: the DELETE or UPDATE names the row by its id alone; a
\* row that is gone by then fails the commit
write_loaded(p) ==
    IF p.row \notin Ids THEN Out(apps, "danger")
    ELSE IF p.op = "delete" THEN Out(Delete(p.row), "success")
    ELSE CommitRow(p.row, [apps[p.row] EXCEPT !.desired_start_date = p.desired_start_date,
                                              !.car_plate = p.car_plate])

WriteLoaded ==
    /\ inflight # NoPending
    /\ apps' = write_loaded(inflight).apps
    /\ flash' = write_loaded(inflight).flash
    /\ inflight' = NoPending
    /\ UNCHANGED <<nextId, now, ticks, members, groups, session, served>>

(* The interleaving specification: member 1 submits, saves and deletes while    *)
(* the admin of group 1 approves                                                *)

MemberOps == {"save", "delete"}

NextRace ==
    \/ \E d \in Days : /\ Room(MaxPair)
                       /\ Request(partner_insurance_apply(MemberSession(1), d, "12A3456"))
    \/ \E op \in MemberOps, i \in Ids, d \in Days :
          LoadAndCheck(MemberSession(1), op, i, d, "12A3456")
    \/ WriteLoaded
    \/ \E i \in Ids : Request(approve(PartnerAdminSession(1), i))
    \/ Request(bulk_approve(PartnerAdminSession(1)))

SpecRace == Init /\ [][NextRace]_vars

----------------------------------------------------------------------------
(* Deleting accounts: /admin/administrators and /admin/members, action 'delete' *)

\* db.session.delete of member row m, then safe_commit
WithoutMember(mem, m) == [n \in DOMAIN mem \ {m} |-> mem[n]]

\* /admin/administrators, action == 'delete', lines 4099-4120: only rows without a
\* partner group, and never the caller's own row
admin_administrators_delete(s, m) ==
    IF ~admin_required(s, members)
    THEN MemberOut(members, admin_required_flash(s, members))
    ELSE IF m \notin DOMAIN members \/ members[m].partner_group_id # None
    THEN MemberOut(members, "none")
    ELSE IF m = s.user_id THEN MemberOut(members, "warning")
    ELSE MemberOut(WithoutMember(members, m), "success")

\* /admin/members, action == 'delete', lines 5916-5919 and 5989-5994: the row of
\* the posted member_id, whichever it is
admin_members_delete(s, m) ==
    IF ~admin_required(s, members)
    THEN MemberOut(members, admin_required_flash(s, members))
    ELSE IF m \notin DOMAIN members THEN MemberOut(members, "none")
    ELSE MemberOut(WithoutMember(members, m), "success")

\* a delete request of browser b with outcome out
AdminDelete(b, out) ==
    LET s == admin_required_session(session[b], members)
    IN  AuthRequest(b, s, out.members, out.flash,
                    IF admin_required(session[b], members) /\ s.user_id \in DOMAIN out.members
                    THEN s.user_id ELSE None)

(* The account specification: two browsers log in as global admins and log out, *)
(* the admin member screen changes roles and both screens delete accounts       *)

NextAdmins ==
    \/ \E b \in Browsers, u \in Users : login_admin(b, u, TRUE)
    \/ \E b \in Browsers : logout(b)
    \/ \E b \in Browsers, m \in Users, role \in Roles :
          admin_members_save(b, m, role, "approved")
    \/ \E b \in Browsers, m \in Users :
          AdminDelete(b, admin_administrators_delete(session[b], m))
    \/ \E b \in Browsers, m \in Users :
          AdminDelete(b, admin_members_delete(session[b], m))

SpecAdmins == Init /\ [][NextAdmins]_vars

----------------------------------------------------------------------------
(* Properties of the lifecycle *)

\* the three fields a status evaluation can write
Evaluated(a) == <<a.status, a.start_at, a.end_at>>

\* C1: evaluating recompute_status twice in a row at the same time gives, the second
\* time, the status, start_at and end_at the first evaluation gave.
C1_RecomputeIdempotent ==
    \A i \in Ids :
        LET once == recompute_status(apps[i], now)
        IN  Evaluated(recompute_status(once, now)) = Evaluated(once)

\* C2: for a row approved at T whose coverage has not ended (it is not expired and the
\* evaluation does not find its end_at reached), an evaluation before T + 2 hours
\* leaves it union_approved and an evaluation at or after T + 2 hours makes it active.
C2_ActivationAfterTwoHours ==
    \A i \in Ids :
        LET a == apps[i]
            r == recompute_status(a, now)
        IN  (/\ a.approved_at # None
             /\ a.status # ST_EXPIRED
             /\ ~(r.end_at # None /\ now >= r.end_at))
            => r.status = IF now < a.approved_at + ActivationHours
                          THEN ST_UNION ELSE ST_ACTIVE

\* a row approved exactly two hours ago, still covered, that the list has made active
C2_Witness ==
    \E i \in Ids : /\ apps[i].status = ST_ACTIVE
                   /\ now = apps[i].approved_at + ActivationHours
                   /\ apps[i].end_at # None /\ now < apps[i].end_at

\* C3: an evaluation that makes a row active sets start_at to midnight of
\* desired_start_date and end_at to 30 days later when start_at was unset, and leaves
\* start_at and end_at as they were when start_at was set.
C3_ActivationWindow ==
    \A i \in Ids :
        LET a == apps[i]
            r == recompute_status(a, now)
        IN  (a.status \in {ST_APPLIED, ST_UNION} /\ r.status = ST_ACTIVE)
            => IF a.start_at = None
               THEN /\ r.start_at = Midnight(a.desired_start_date)
                    /\ r.end_at = r.start_at + 24 * CoverageDays
               ELSE r.start_at = a.start_at /\ r.end_at = a.end_at

\* an approved row with no start_at that the evaluation makes active
C3_Witness ==
    \E i \in Ids : /\ apps[i].status = ST_UNION /\ apps[i].start_at = None
                   /\ recompute_status(apps[i], now).status = ST_ACTIVE

\* C4: a row whose end_at is set and reached is expired by the evaluation, whatever
\* its stored status and approved_at.
C4_ExpiredAtEnd ==
    \A i \in Ids :
        (apps[i].end_at # None /\ now >= apps[i].end_at)
        => recompute_status(apps[i], now).status = ST_EXPIRED

\* a row never approved, still applied, whose end_at has passed: the list expires it
C4_Witness ==
    \E i \in Ids : /\ apps[i].status = ST_APPLIED /\ apps[i].approved_at = None
                   /\ apps[i].end_at # None /\ now >= apps[i].end_at
                   /\ recompute_status(apps[i], now).status = ST_EXPIRED

\* C5: no request moves the status of a row backward in the order applied,
\* union_approved, active, expired.
C5_StatusNeverBackward ==
    [][\A i \in Ids \cap DOMAIN apps' :
          Rank(apps'[i].status) >= Rank(apps[i].status)]_vars

\* C6: approving a row that is already approved, singly or in bulk, succeeds and
\* leaves its approved_at, status, start_at and end_at as they were.
C6_ApprovalIdempotent ==
    \A c \in PartnerAdmins, i \in Ids :
        (apps[i].approved_at # None /\ apps[i].partner_group_id = c.partner_group_id)
        => /\ approve(c, i) = Out(apps, "success")
           /\ bulk_approve(c) = Out(apps, "success")

\* the sessions of members
Members == {c \in Callers : c.user_role = "member"}

GetsApproved(i) == apps[i].approved_at = None /\ apps'[i].approved_at # None

\* the step is an approval of row i on the approval screen by the admin of its group
PartnerApproval(i) ==
    \E c \in PartnerAdmins :
        /\ c.partner_group_id = apps[i].partner_group_id
        /\ apps' \in {approve(c, i).apps, bulk_approve(c).apps}

\* the step is an approval of row i on the admin insurance screen by a global admin
AdminApproval(i) ==
    \E c \in Admins, rows \in SUBSET Ids :
        apps' \in {admin_insurance_approve(c, i, rows).apps,
                   admin_insurance_bulk_approve(c, rows).apps}

\* the step is an overview save of row i by a global admin that carries approval time t
OverviewApproval(i, t) ==
    \E c \in Admins, d \in FormDates, plate \in Plates, s \in FormTimes, e \in FormTimes :
        apps' = admin_insurance_overview_save(c, i, d, plate, s, e, t).apps

C9_StatusIsFunctionOfFields ==
    \A i \in Ids, j \in Ids :
        LET ri == recompute_status(apps[i], now)
            rj == recompute_status(apps[j], now)
        IN  (/\ ri.approved_at = rj.approved_at
             /\ ri.start_at = rj.start_at
             /\ ri.end_at = rj.end_at)
            => ri.status = rj.status

\* C10: a request runs an admin view only for a user whose stored Member row has role
\* admin at the time of the request; once the stored role is no longer admin, the
\* user's next admin request is denied although the session still says admin.
C10_AdminViewOnlyForStoredAdmin ==
    [][served' # None => members[served'].role = "admin"]_vars

\* C11: a request runs an admin view only for a user whose stored Member row has
\* approval_status approved at the time of the request; an admin whose row is not
\* approved is turned away and no view body runs.
C11_AdminViewOnlyForApproved ==
    [][/\ served' # None => members[served'].approval_status = "approved"
       /\ \A b \in Browsers :
             (/\ is_authenticated(session[b], members)
              /\ members[session[b].user_id].approval_status # "approved"
              /\ \/ admin_members(b)
                 \/ \E m \in Users, role \in Roles, status \in ApprovalStatuses :
                       \/ admin_members_save(b, m, role, status)
                       \/ admin_members_update_status(b, m, status))
             => /\ served' = None
                /\ members' = members
                /\ flash' \in {"not_admin", "not_approved"}]_vars

\* a logged-in admin, by session and by stored role, whose stored approval_status is
\* not approved and who has just been turned away for it
C11_Witness ==
    /\ flash = "not_approved"
    /\ served = None
    /\ \E b \in Browsers :
          /\ is_authenticated(session[b], members)
          /\ session[b].user_role = "admin"
          /\ members[session[b].user_id].role = "admin"
          /\ members[session[b].user_id].approval_status # "approved"

\* C12: a member login with the right username, password and partner group logs the
\* member in only if the stored approval_status is approved; otherwise it is rejected
\* with its own message and the browser's session is left as it was.
C12_MemberLoginNeedsApproval ==
    [][\A b \in Browsers, u \in Users, g \in Groups :
          (/\ members[u].partner_group_id = g
           /\ members[u].role = "member"
           /\ login_member(b, u, g, TRUE))
          => IF members[u].approval_status = "approved"
             THEN /\ session'[b].user_id = u
                  /\ session'[b].user_role = "member"
             ELSE /\ session' = session
                  /\ flash' = "warning"]_vars

\* a member whose approval_status is not approved has just been refused at login and
\* is not logged in anywhere
C12_Witness ==
    /\ flash = "warning"
    /\ \E u \in MemberIds :
          /\ members[u].role = "member"
          /\ members[u].approval_status # "approved"
          /\ \A b \in Browsers : session[b].user_id # u


----------------------------------------------------------------------------
(* Properties of login *)

\* the outcomes of POST /login in the current state for one form
LoginOutcomes(b, username, password, selector) ==
    {login(session[b], members, groups, username, password, selector, u) :
        u \in First(GlobalAdminRows(members, username))}

\* C13: after any successful login with the global-admin selector, whatever the
\* browser's session held before, the session has role admin and no partner-group
\* context: no partner_group_id, no partner_admin user_type, no selected group
C13_AdminLoginClearsGroupContext ==
    \A b \in Browsers, username \in Usernames, password \in Passwords :
       \A o \in LoginOutcomes(b, username, password, AdminSelector) :
          o.ok => /\ o.session.user_role = "admin"
                  /\ o.session.partner_group_id = None
                  /\ o.session.user_type # "partner_admin"
                  /\ o.session.admin_selected = None


\* C14: a global admin who logs in with their own credentials and selects group g
\* gets a session the partner-admin screens of g accept: the approval, member and
\* settlement gate (PartnerAdminGate) and the insurance screen's group (PartnerGroupOf)
C14_SelectedGroupGrantsPartnerAdmin ==
    \A b \in Browsers, username \in Usernames, password \in Passwords, g \in Groups :
       \A o \in LoginOutcomes(b, username, password, g) :
          o.ok /\ o.branch = "admin_in_group"
          => /\ PartnerAdminGate(o.session)
             /\ o.session.partner_group_id = g
             /\ PartnerGroupOf(o.session, o.members) = g


\* C15: a login that puts a global admin into a partner group changes no stored
\* credential: every group keeps its admin_username and admin password hash, and
\* every member row keeps its password hash
C15_GroupSelectionKeepsCredentials ==
    \A b \in Browsers, username \in Usernames, password \in Passwords, g \in Groups :
       \A o \in LoginOutcomes(b, username, password, g) :
          o.ok /\ o.branch \in {"admin_in_group", "bootstrap_group"}
          => /\ o.groups = groups
             /\ \A m \in DOMAIN members :
                   o.members[m].password_hash = members[m].password_hash


\* the approved members of group g that username and password identify
ApprovedMembers(g, username, password) ==
    {m \in DOMAIN members : /\ members[m].username = username
                            /\ members[m].partner_group_id = g
                            /\ members[m].role = "member"
                            /\ members[m].approval_status = "approved"
                            /\ check_password_hash(members[m].password_hash, password)}

\* C16: the three kinds of login use separate credential namespaces: the admin
\* credential of group g logs in as the admin of g, and an approved member of g
\* with the right password logs in as that member, whatever global admin rows
\* and whatever group admin_username carry the same username
C16_SeparateCredentialNamespaces ==
    \A b \in Browsers, username \in Usernames, password \in Passwords, g \in Groups :
       \A o \in LoginOutcomes(b, username, password, g) :
          /\ (/\ groups[g].admin_username = username
              /\ check_password_hash(groups[g].admin_password_hash, password))
             => /\ o.ok
                /\ PartnerAdminGate(o.session)
                /\ o.session.partner_group_id = g
          /\ \A m \in ApprovedMembers(g, username, password) :
                /\ o.ok
                /\ o.session.user_id = m
                /\ o.session.user_role = "member"


\* the rows that carry the bootstrap username and no partner group
BootstrapNamedRows(mem) ==
    {m \in DOMAIN mem : /\ mem[m].username = BootstrapUsername
                        /\ mem[m].partner_group_id = None}

\* C17: a login with the bootstrap credential, with or without a partner group
\* selected and from any store state, leaves exactly one global-admin row with the
\* bootstrap username and no second row of that username without a partner group
C17_BootstrapProvisionsOneAdminRow ==
    \A b \in Browsers, selector \in Selectors :
       \A o \in LoginOutcomes(b, BootstrapUsername, BootstrapPassword, selector) :
          o.ok => /\ Cardinality(GlobalAdminRows(o.members, BootstrapUsername)) = 1
                  /\ Cardinality(BootstrapNamedRows(o.members)) = 1


\* the outcomes of a login with the bootstrap pair from session s over the given tables
BootstrapLogins(s, mem, grp) ==
    {login(s, mem, grp, BootstrapUsername, BootstrapPassword, selector, u) :
        selector \in Selectors, u \in First(GlobalAdminRows(mem, BootstrapUsername))}

\* the global admin's stored password is no longer the bootstrap password
Rotated(mem) ==
    \E m \in GlobalAdminRows(mem, BootstrapUsername) :
       ~check_password_hash(mem[m].password_hash, BootstrapPassword)

\* C18: the bootstrap credential works once: after a step that logged in with it,
\* and in any state where the global admin's password has been rotated away from
\* it, a login with the bootstrap pair does not authenticate and leaves the
\* member table as it is
C18_BootstrapIsOneTime ==
    [][\A b \in Browsers :
          /\ Rotated(members)
             => \A o \in BootstrapLogins(session[b], members, groups) :
                   ~o.ok /\ o.members = members
          /\ (\E o \in BootstrapLogins(session[b], members, groups) :
                 /\ o.ok
                 /\ session' = [session EXCEPT ![b] = o.session]
                 /\ members' = o.members
                 /\ groups' = o.groups)
             => \A o \in BootstrapLogins(session'[b], members', groups') :
                   ~o.ok /\ o.members = members']_vars


----------------------------------------------------------------------------
(* Properties of the approval scope and of settlement *)

\* the sessions that can reach an approve action: the admin of either group, the
\* global admin, and the global admin with a group selected
ApprovalCallers ==
    Callers \cup {PartnerAdminSession(g) : g \in Groups}
            \cup {BootstrapGroupSession(g) : g \in Groups}

\* the group an approve action of caller c is for: the partner admin's own group,
\* else the group the global admin selected
ApprovalScope(c) ==
    IF PartnerAdminGate(c) THEN c.partner_group_id ELSE c.admin_selected

\* C19: single approve and bulk approve, on the partner-admin approval screen and
\* on the global admin insurance screen, leave every application of a group other
\* than the caller's group (or the global admin's selected group) unchanged
C19_ApprovalScopedToGroup ==
    \A c \in ApprovalCallers, j \in Ids :
       apps[j].partner_group_id # ApprovalScope(c)
       => /\ bulk_approve(c).apps[j] = apps[j]
          /\ admin_insurance_bulk_approve(c, {}).apps[j] = apps[j]
          /\ \A i \in Ids :
                /\ approve(c, i).apps[j] = apps[j]
                /\ admin_insurance_approve(c, i, {}).apps[j] = apps[j]


\* the applications that belong to month's settlement: start_at in
\* [first of month, first of the next month), in group pg when one is given
InMonth(month, pg) ==
    {i \in Ids : /\ apps[i].start_at # None
                 /\ FirstOfMonth(month) <= apps[i].start_at
                 /\ apps[i].start_at < FirstOfMonth(month + 1)
                 /\ pg # None => apps[i].partner_group_id = pg}

\* C20: each settlement view of month M counts exactly the applications, within
\* its partner-group filter, whose start_at lies in [first of M, first of M+1)
C20_SettlementCountsTheMonth ==
    \A month \in Months :
       /\ admin_settlement(month) = InMonth(month, None)
       /\ \A pg \in Groups \cup {None} :
             admin_settlement_overview(month, pg) = InMonth(month, pg)
       /\ \A g \in Groups :
             partner_admin_settlement(PartnerAdminSession(g), month) = InMonth(month, g)


\* the applications some settlement view counts for some month
Settled ==
    UNION {admin_settlement(month) : month \in Months}
      \cup UNION {admin_settlement_overview(month, pg) :
                     month \in Months, pg \in Groups \cup {None}}
      \cup UNION {partner_admin_settlement(PartnerAdminSession(g), month) :
                     month \in Months, g \in Groups}

\* C21: settlement goes by the actual activation: an application that is approved
\* but not yet active (the clock is before approved_at + 2 hours) is counted in no
\* month's settlement by any view, whatever its desired_start_date
C21_SettlementByActivation ==
    \A i \in Ids :
       (/\ apps[i].approved_at # None
        /\ apps[i].status = ST_UNION
        /\ now < apps[i].approved_at + ActivationHours)
       => i \notin Settled


\* the applications of InMonth(month, pg) that name no creator
Creatorless(month, pg) ==
    {i \in InMonth(month, pg) : ~created_by_member(apps[i])}

\* C22: in every settlement view the reported total count is the number of
\* qualifying applications, and a qualifying application without a creator is
\* counted in the unknown company's bucket
C22_EveryApplicationCounted ==
    \A month \in SettleMonths :
       /\ LET r == admin_settlement_result(month)
          IN  /\ r.total_count = Cardinality(InMonth(month, None))
              /\ Creatorless(month, None) # {}
                 => /\ UnknownCompany \in DOMAIN r.settlements
                    /\ r.settlements[UnknownCompany].count
                          = Cardinality(Creatorless(month, None))
       /\ \A pg \in Groups \cup {None} :
             admin_settlement_overview_result(month, pg).grand_total_count
                = Cardinality(InMonth(month, pg))
       /\ \A g \in Groups :
             LET r == partner_admin_settlement_result(PartnerAdminSession(g), month)
             IN  /\ r.total_count = Cardinality(InMonth(month, g))
                 /\ Creatorless(month, g) # {}
                    => /\ UnknownCompany \in DOMAIN r.settlements
                       /\ r.settlements[UnknownCompany].count
                             = Cardinality(Creatorless(month, g))


\* every bucket's amount is its count times price
Priced(buckets, price) ==
    \A k \in DOMAIN buckets : buckets[k].amount = buckets[k].count * price

\* the totals are the sums over the buckets
Totalled(buckets, count, amount) ==
    /\ count = SumOf(buckets, DOMAIN buckets, "count")
    /\ amount = SumOf(buckets, DOMAIN buckets, "amount")

\* C23: in every settlement result a company's amount is its count times the unit
\* price of the view (95,000 in the global-admin views, 9,500 in the partner
\* view), a group's subtotal is the sum over its companies, and the grand totals
\* are the sums of the subtotals
C23_AmountsAndTotals ==
    \A month \in SettleMonths :
       /\ LET r == admin_settlement_result(month)
          IN  /\ Priced(r.settlements, OverviewUnitPrice)
              /\ Totalled(r.settlements, r.total_count, r.total_amount)
       /\ \A pg \in Groups \cup {None} :
             LET r == admin_settlement_overview_result(month, pg)
                 by_group == r.settlements_by_group
             IN  /\ \A g \in DOMAIN by_group :
                       /\ Priced(by_group[g].companies, OverviewUnitPrice)
                       /\ Totalled(by_group[g].companies, by_group[g].total_count,
                                   by_group[g].total_amount)
                 /\ r.grand_total_count = SumOf(by_group, DOMAIN by_group, "total_count")
                 /\ r.grand_total_amount = SumOf(by_group, DOMAIN by_group, "total_amount")
       /\ \A g \in Groups :
             LET r == partner_admin_settlement_result(PartnerAdminSession(g), month)
             IN  /\ Priced(r.settlements, PartnerUnitPrice)
                 /\ Totalled(r.settlements, r.total_count, r.total_amount)


\* C24: a settlement query for a partner group and month without qualifying
\* applications is answered, not refused, with total count 0 and total amount 0
C24_EmptySettlementIsZero ==
    \A month \in SettleMonths, g \in Groups :
       InMonth(month, g) = {}
       => /\ LET r == partner_admin_settlement_result(PartnerAdminSession(g), month)
             IN  /\ ~r.denied
                 /\ r.total_count = 0
                 /\ r.total_amount = 0
          /\ partner_admin_settlement_view(PartnerAdminSession(g), month).flash = "none"
          /\ LET r == admin_settlement_overview_result(month, g)
             IN  /\ r.grand_total_count = 0
                 /\ r.grand_total_amount = 0

\* applications are settled in January for group 1 while February of group 2 is
\* empty, and a view has answered
C24_Witness ==
    /\ InMonth(1, 1) # {}
    /\ InMonth(2, 2) = {}
    /\ Ids # {}
    /\ flash = "none"

\* a request of one of the three settlement views
SettlementRequest ==
    \E c \in Viewers, month \in SettleMonths :
       \/ Request(partner_admin_settlement_view(c, month))
       \/ Request(admin_settlement_view(c, month))
       \/ \E pg \in Groups \cup {None} :
             Request(admin_settlement_overview_view(c, month, pg))

----------------------------------------------------------------------------
(* Properties of the member and partner group tables *)

\* C26: no two Member rows share a (username, partner_group_id) pair, a pair
\* without a partner group included, after any login and any save of an account
C26_UsernameUniqueInGroup ==
    \A m, n \in DOMAIN members :
       (/\ members[m].username = members[n].username
        /\ members[m].partner_group_id = members[n].partner_group_id)
       => m = n


\* the business numbers of the forms that are in use
TakenBusinessNumbers ==
    {business_number \in BusinessNumbers :
        \E m \in DOMAIN members : members[m].business_number = business_number}

\* C27: creating a member whose business number belongs to an existing member of
\* any partner group fails and creates nothing, by registration, by the partner
\* admin's add and by the admin's create; so no two members ever share a
\* non-empty business number
C27_BusinessNumberUnique ==
    /\ \A m, n \in DOMAIN members :
          (/\ members[m].business_number # ""
           /\ members[m].business_number = members[n].business_number)
          => m = n
    /\ \A username \in NewUsernames, business_number \in TakenBusinessNumbers, g \in Groups :
          /\ register(username, "pw", business_number, g).members = members
          /\ \A status \in ApprovalStatuses :
                partner_admin_member_add(PartnerAdminSession(g), username, "pw",
                                         business_number, status).members = members
          /\ admin_members_create(GlobalAdminSession, g, username, "pw",
                                  business_number).members = members


----------------------------------------------------------------------------
(* Properties of the partner group table and of safe_commit *)

\* two groups of grp share a name, an admin username or a business number
SharedGroupField(grp) ==
    \E g, h \in DOMAIN grp :
       /\ g # h
       /\ \/ grp[g].name = grp[h].name
          \/ grp[g].admin_username = grp[h].admin_username
          \/ grp[g].business_number = grp[h].business_number

\* C28: name, admin_username and business_number of the partner groups are each
\* unique in every reachable state, and a create whose name, business number or
\* admin username is already taken by a group leaves the group table as it was
C28_GroupFieldsUnique ==
    /\ ~SharedGroupField(groups)
    /\ \A name \in GroupNames, business_number \in GroupBusinessNumbers,
          admin_username \in GroupAdminUsernames :
          (\E g \in DOMAIN groups : \/ groups[g].name = name
                                    \/ groups[g].business_number = business_number
                                    \/ groups[g].admin_username = admin_username)
          => admin_partner_groups_create(GlobalAdminSession, name, business_number,
                                         admin_username, "pw").groups = groups

\* an edit that would have made two groups share a field was turned away, with a
\* group created since the start and the bootstrap login granted on one group
C28_Witness ==
    /\ flash = "save_failed"
    /\ Cardinality(DOMAIN groups) = MaxGroups
    /\ \E g \in DOMAIN groups : groups[g].admin_username = BootstrapUsername

\* the members and the applications of group g in the tables mem and tbl
MembersOf(mem, g) == {m \in DOMAIN mem : mem[m].partner_group_id = g}
ApplicationsOf(tbl, g) == {i \in DOMAIN tbl : tbl[i].partner_group_id = g}

\* C29: a delete request on a partner group either leaves the group, its members
\* and its applications as they were, or removes the group together with all of
\* its members and applications
C29_DeleteCascadesOrBlocks ==
    \A g \in DOMAIN groups :
       LET o == admin_partner_groups_delete(GlobalAdminSession, g)
       IN  \/ /\ o.groups = groups
              /\ o.members = members
              /\ o.apps = apps
           \/ /\ g \notin DOMAIN o.groups
              /\ MembersOf(members, g) \cap DOMAIN o.members = {}
              /\ ApplicationsOf(apps, g) \cap DOMAIN o.apps = {}

\* C30: a request whose commit fails leaves the partner group, member and
\* application tables exactly as they were before the request
CommitFailed == {"create_failed", "save_failed", "delete_failed", "danger"}

----------------------------------------------------------------------------
(* Properties of the list views and of submission *)

\* C31: when the commit of the recomputed statuses fails, the member's list pages
\* still show, for every listed application, the status the evaluation computed
C31_ListShowsComputedStatus ==
    \A m \in MemberIds, rows \in SUBSET Ids :
       LET p == insurance_page(MemberSession(m), rows, FALSE)
           q == partner_insurance_page(MemberSession(m), rows, FALSE)
       IN  /\ \A i \in p.listed : p.status[i] = recompute_status(apps[i], now).status
           /\ \A i \in q.listed : q.status[i] = recompute_status(apps[i], now).status


\* the outcome o stores exactly one new application, in group pg, with status
\* applied and no approval, and leaves the stored applications as they were
Submitted(o, pg) ==
    /\ Cardinality(DOMAIN o.apps \ Ids) = 1
    /\ \A i \in DOMAIN o.apps \ Ids : /\ o.apps[i].partner_group_id = pg
                                     /\ o.apps[i].status = ST_APPLIED
                                     /\ o.apps[i].approved_at = None
    /\ \A j \in Ids : j \in DOMAIN o.apps /\ o.apps[j] = apps[j]

\* C32: with a desired start date and a plate, a submission by a member through
\* /partner/insurance or /insurance, or by a partner-group admin, creates exactly
\* one application in the submitter's group, applied and not approved, also when
\* an application with the same plate is already stored
C32_SubmissionAlwaysSucceeds ==
    \A d \in Days :
       /\ \A g \in Groups :
             Submitted(partner_insurance_apply(PartnerAdminSession(g), d, "12A3456"), g)
       /\ \A m \in MemberIds :
             /\ Submitted(partner_insurance_apply(MemberSession(m), d, "12A3456"),
                          members[m].partner_group_id)
             /\ Submitted(insurance_new(MemberSession(m), d, "12A3456"),
                          members[m].partner_group_id)


\* C33: a submission whose desired start date or plate is missing stores nothing,
\* and no stored application lacks its desired start date or has an empty plate
C33_RequiredFieldsPresent ==
    /\ \A i \in Ids : apps[i].desired_start_date # None /\ apps[i].car_plate # ""
    /\ \A d \in FormDates, plate \in Plates :
          parse_date(d) = None \/ plate = ""
          => /\ \A m \in MemberIds :
                   /\ partner_insurance_apply(MemberSession(m), d, plate).apps = apps
                   /\ insurance_new(MemberSession(m), d, plate).apps = apps
             /\ \A g \in Groups :
                   partner_insurance_apply(PartnerAdminSession(g), d, plate).apps = apps


----------------------------------------------------------------------------
(* Properties of the status evaluation and of the partner-tier screens *)

\* the evaluation at time t finds application a due for activation
DueForActivation(a, t) ==
    /\ a.status \in {ST_APPLIED, ST_UNION}
    /\ a.approved_at # None
    /\ t >= a.approved_at + ActivationHours

\* C34: a status evaluation leaves an application that is applied or union
\* approved, and not yet due for activation, short of expired
C34_NoExpiryBeforeActivation ==
    \A i \in Ids :
       /\ apps[i].status \in {ST_APPLIED, ST_UNION}
       /\ recompute_status(apps[i], now).status = ST_EXPIRED
       => DueForActivation(apps[i], now)


\* C35: under the partner-tier requests, an application with start_at set has
\* start_at at midnight of its desired start date and end_at thirty days later
C35_WindowFollowsDesiredDate ==
    \A i \in Ids :
       apps[i].start_at # None
       => /\ apps[i].start_at = Midnight(apps[i].desired_start_date)
          /\ apps[i].end_at = apps[i].start_at + CoverageHours


----------------------------------------------------------------------------
(* Properties of the session after a member login *)

\* the session's latest successful login was a member's
MemberLoggedIn(s) == is_authenticated(s, members) /\ s.user_role = "member"

\* what a member's browser can post on the application screens for row i
MemberRequests(s, i) ==
    {partner_insurance_save(s, i, d, "12A3456") : d \in Days}
    \cup {insurance_save(s, i, d, "12A3456") : d \in Days}
    \cup {partner_insurance_delete(s, i), insurance_delete(s, i),
          approve(s, i), approval_delete(s, i),
          partner_insurance_list(s, Ids), insurance_list(s, Ids)}

\* C36: no request of a session logged in as a member changes or deletes an
\* application that another member or a partner-group admin created
C36_MemberTouchesOwnRowsOnly ==
    \A b \in Browsers :
       MemberLoggedIn(session[b])
       => \A i \in Ids :
             apps[i].created_by_member_id # session[b].user_id
             => \A out \in MemberRequests(session[b], i) :
                   i \in DOMAIN out.apps /\ out.apps[i] = apps[i]

\* C37: after a successful member login, whatever logins the browser's session
\* saw before, the session is turned away by the partner-admin screens: insurance
\* approval, member approval and settlement
C37_MemberLoginDropsAdminRights ==
    \A b \in Browsers, username \in Usernames, password \in Passwords, g \in Groups :
       \A o \in LoginOutcomes(b, username, password, g) :
          o.ok /\ o.branch = "member"
          => /\ ~PartnerAdminGate(o.session)
             /\ bulk_approve(o.session).flash = "denied"
             /\ partner_admin_member_add(o.session, "park", "pw", "1111111111",
                                         "approved").flash = "denied"
             /\ \A month \in SettleMonths :
                   partner_admin_settlement_view(o.session, month).flash = "denied"


----------------------------------------------------------------------------
(* Properties of requests that run side by side *)

\* C38: the write of a member's save or delete leaves every application whose
\* approval is committed as it was, however the member's request and the
\* admin's approve interleave
C38_NoMemberWriteAfterApproval ==
    [][inflight # NoPending /\ inflight' = NoPending
       => \A i \in Ids : apps[i].approved_at # None
                         => i \in DOMAIN apps' /\ apps'[i] = apps[i]]_vars


----------------------------------------------------------------------------
(* Properties of account deletion *)

\* C39: whatever account a logged-in global admin asks either admin screen to
\* delete, the admin's own Member row is still there after the request
C39_AdminKeepsOwnAccount ==
    \A b \in Browsers :
       admin_required(session[b], members)
       => \A m \in Users :
             /\ session[b].user_id
                   \in DOMAIN admin_administrators_delete(session[b], m).members
             /\ session[b].user_id \in DOMAIN admin_members_delete(session[b], m).members

============================================================================
